---- MODULE Spec2Model ----
(***************************************************************************)
(* House Selector (aus-house-select): the load orchestrator                *)
(* (utils/loaders.ts), the useMapData hook, the source normalisers and     *)
(* the asynchronous operations of App.tsx, as state machines.              *)
(*                                                                         *)
(* JavaScript values are tagged records: Str(s), Num(n), Null, Undefined,  *)
(* Obj(m).  A text is a sequence of one-character strings, so that trim,   *)
(* toLowerCase and startsWith are computed character by character.         *)
(***************************************************************************)
EXTENDS Integers, Sequences, FiniteSets, TLC

VARIABLES
    \* ---- one load cycle: loadMapData and its five fetches
    fetchStatus,     \* dataset -> "idle" | "pending" | "settled"
    fetchResult,     \* dataset -> value the fetch promise resolved with
    loadPromise,     \* "none" | "pending" | "resolved" | "rejected"
    loadValue,       \* the snapshot or the Error of the settled promise
    \* ---- useMapData
    hookState,       \* [loading, error, data]
    hookCancelled,   \* the effect's `cancelled` flag
    hookPc,          \* "init" | "waiting" | "done": the then/catch reaction
    mounted,         \* the consumer (App) is mounted
    \* ---- App.tsx
    selectedProcessedLayers, processedLayerData, processedLayerError,
    runs,            \* the runs of the lazy-loader effect: [missing, i, cancelled]
    fetches,         \* the fetches loadSelected has started: [status, run, name]
    temporaryArcgis, arcgisName, arcgisUrl, arcgisWhere, arcgisError, addingArcgis,
    arcgisCalls,     \* the calls of handleArcgisAdd that reached their await
    kmzLayers, kmzError, kmzLoading,
    uploads,         \* the calls of handleKmzUpload that reached their await
    addressQuery, addressPin, geocodeStatus,
    searches,        \* the calls of handleGeocode that reached their await
    selectedState,   \* the name in the state selector, or null
    selectedSchool,  \* the school feature of the last marker click, or null
    selectedSa1,     \* the SA1 feature of the last polygon click, or null
    percentileMax,   \* the value of the percentile slider, or null
    viewPc,          \* "rendered" while the effects of a render are to run, else "idle"
    \* ---- a call of a utility function
    callArg, callRet, callPc,
    callInput        \* the object passed to a call that writes to its argument,
                     \* as it stands; Undefined where the call is not tracked

loadVars == <<fetchStatus, fetchResult, loadPromise, loadValue>>
hookVars == <<hookState, hookCancelled, hookPc, mounted>>
callVars == <<callArg, callRet, callPc, callInput>>
lazyVars == <<selectedProcessedLayers, processedLayerData, processedLayerError, runs,
              fetches>>
arcgisVars == <<temporaryArcgis, arcgisName, arcgisUrl, arcgisWhere, arcgisError,
                addingArcgis, arcgisCalls>>
kmzVars == <<kmzLayers, kmzError, kmzLoading, uploads>>
geocodeVars == <<addressQuery, addressPin, geocodeStatus, searches>>
viewVars == <<selectedState, selectedSchool, selectedSa1, percentileMax, viewPc>>
appVars == <<lazyVars, arcgisVars, kmzVars, geocodeVars, viewVars>>
vars == <<loadVars, hookVars, callVars, appVars>>

-----------------------------------------------------------------------------
(* Bounds *)

MaxFeed == 3          \* features in a feed given to a pure function
MaxLoadFeatures == 1  \* features in a dataset file served to loadMapData
MaxStarts == 3        \* runs of the lazy loader and calls of the handlers
MaxText == 3          \* characters of a text given to parsePercentile

-----------------------------------------------------------------------------
(* JavaScript values *)

Null == [t |-> "null"]
Undefined == [t |-> "undefined"]
Str(s) == [t |-> "str", v |-> s]
Num(n) == [t |-> "num", v |-> n]
\* an object literal: `pairs` is the sequence of <<key, value>> in insertion
\* order; keys holds that order (Object.keys), m the value of each key
Obj(pairs) ==
    [t |-> "obj",
     keys |-> [i \in 1..Len(pairs) |-> pairs[i][1]],
     m |-> [k \in {pairs[i][1] : i \in 1..Len(pairs)} |->
              pairs[CHOOSE i \in 1..Len(pairs) : pairs[i][1] = k][2]]]

\* `x == null` / `x != null`
Nullish(x) == x.t \in {"null", "undefined"}

\* the truthiness of a value (`!x`, `x || y`)
Truthy(x) ==
    CASE x.t = "str" -> Len(x.v) > 0
      [] x.t = "num" -> x.v # 0
      [] x.t = "obj" -> TRUE
      [] OTHER -> FALSE

\* x || y
OrElse(x, y) == IF Truthy(x) THEN x ELSE y

\* props[key] on an object value
Get(o, key) == IF o.t = "obj" /\ key \in DOMAIN o.m THEN o.m[key] ELSE Undefined

HasKey(o, key) == o.t = "obj" /\ key \in DOMAIN o.m

\* props[key] = value
SetProp(o, key, value) ==
    [t |-> "obj",
     keys |-> IF key \in DOMAIN o.m THEN o.keys ELSE Append(o.keys, key),
     m |-> [k \in DOMAIN o.m \cup {key} |-> IF k = key THEN value ELSE o.m[k]]]

\* the empty object literal {}
EmptyObj == Obj(<<>>)

(* Texts *)

UpperChars == <<"A","B","C","D","E","F","G","H","I","J","K","L","M",
                "N","O","P","Q","R","S","T","U","V","W","X","Y","Z">>
LowerChars == <<"a","b","c","d","e","f","g","h","i","j","k","l","m",
                "n","o","p","q","r","s","t","u","v","w","x","y","z">>
DigitChars == <<"0","1","2","3","4","5","6","7","8","9">>

IsSpace(c) == c \in {" ", "\t", "\n"}

LowerChar(c) ==
    IF \E i \in 1..26 : UpperChars[i] = c
    THEN LowerChars[CHOOSE i \in 1..26 : UpperChars[i] = c]
    ELSE c

UpperChar(c) ==
    IF \E i \in 1..26 : LowerChars[i] = c
    THEN UpperChars[CHOOSE i \in 1..26 : LowerChars[i] = c]
    ELSE c

ToLowerCase(s) == [i \in 1..Len(s) |-> LowerChar(s[i])]
ToUpperCase(s) == [i \in 1..Len(s) |-> UpperChar(s[i])]

Trim(s) ==
    LET keep == {i \in 1..Len(s) : ~IsSpace(s[i])}
    IN  IF keep = {} THEN <<>>
        ELSE LET lo == CHOOSE i \in keep : \A j \in keep : i <= j
                 hi == CHOOSE i \in keep : \A j \in keep : j <= i
             IN  SubSeq(s, lo, hi)

StartsWith(s, p) == Len(p) <= Len(s) /\ SubSeq(s, 1, Len(p)) = p

RECURSIVE NatText(_)
NatText(n) ==
    IF n < 10 THEN <<DigitChars[n + 1]>>
    ELSE NatText(n \div 10) \o <<DigitChars[(n % 10) + 1]>>

\* String(value) for the values a property holds
ToText(x) ==
    CASE x.t = "str" -> x.v
      [] x.t = "num" -> IF x.v < 0 THEN <<"-">> \o NatText(-x.v) ELSE NatText(x.v)
      [] x.t = "null" -> <<"n","u","l","l">>
      [] OTHER -> <<"u","n","d","e","f","i","n","e","d">>

(* Collections *)

GeoFeature(id, properties, geometry) ==
    [id |-> id, properties |-> properties, geometry |-> geometry]
Feature(id, properties) == GeoFeature(id, properties, Null)
Collection(features) == [t |-> "obj", features |-> features]

\* feature.properties || {}
PropsOf(feature) == IF feature.properties.t = "obj" THEN feature.properties ELSE EmptyObj

\* a feed: the templates numbered in order, so that every feature is distinct
Numbered(templates) == [i \in 1..Len(templates) |-> Feature(i, templates[i])]
GeoNumbered(templates) ==
    [i \in 1..Len(templates) |->
        GeoFeature(i, templates[i].properties, templates[i].geometry)]

SeqsUpTo(S, n) == UNION {[1..k -> S] : k \in 0..n}

\* !data?.features?.length
NoFeatures(data) == data.t # "obj" \/ Len(data.features) = 0

-----------------------------------------------------------------------------
(* groupTransitLayers *)

kROUTETYPE == <<"R","O","U","T","E","T","Y","P","E">>
kRouteType == <<"R","o","u","t","e","T","y","p","e">>
kroute_type == <<"r","o","u","t","e","_","t","y","p","e">>
kName == <<"n","a","m","e">>
RouteTypeKeys == <<kROUTETYPE, kRouteType, kroute_type>>

tTrain == <<"t","r","a","i","n">>
tStandard == <<"s","t","a","n","d","a","r","d">>
tCat == <<"c","a","t">>
tSchool == <<"s","c","h","o","o","l">>
BusTokens == {tStandard, tCat, tSchool}

\* a variant that compares the value as written: no trim()
routeTypeUntrimmed(feature) ==
    LET props == PropsOf(feature)
        hits == {i \in 1..Len(RouteTypeKeys) : ~Nullish(Get(props, RouteTypeKeys[i]))}
    IN  IF hits = {} THEN <<>>
        ELSE LET first == CHOOSE i \in hits : \A j \in hits : i <= j
             IN  ToLowerCase(ToText(Get(props, RouteTypeKeys[first])))

routeType(feature) ==
    LET props == PropsOf(feature)
        hits == {i \in 1..Len(RouteTypeKeys) : ~Nullish(Get(props, RouteTypeKeys[i]))}
    IN  IF hits = {} THEN <<>>
        ELSE LET first == CHOOSE i \in hits : \A j \in hits : i <= j
             IN  ToLowerCase(Trim(ToText(Get(props, RouteTypeKeys[first]))))

IsTrain(feature) == routeType(feature) = tTrain
IsBus(feature) == routeType(feature) \in BusTokens
IsOther(feature) == routeType(feature) \notin ({tTrain} \cup BusTokens)

\* a mapping with no key (`{}`)
NoLayers == [k \in {} |-> Null]

groupTransitLayers(data) ==
    IF NoFeatures(data) THEN NoLayers
    ELSE LET group == [k \in {"train", "bus", "other"} |->
                         Collection(SelectSeq(data.features,
                             LAMBDA f : CASE k = "train" -> IsTrain(f)
                                          [] k = "bus" -> IsBus(f)
                                          [] OTHER -> IsOther(f)))]
             present == {k \in {"train", "bus", "other"} : Len(group[k].features) > 0}
         IN  IF present = {} THEN [k \in {"all"} |-> data]
             ELSE [k \in present |-> group[k]]

\* transit features as the feed may carry them
TransitTemplates ==
    { Null,
      EmptyObj,
      Obj(<< <<kName, Str(<<"x">>)>> >>),
      Obj(<< <<kROUTETYPE, Null>> >>),
      Obj(<< <<kROUTETYPE, Str(<<"T","r","a","i","n">>)>> >>),
      Obj(<< <<kRouteType, Str(<<" ","s","t","a","n","d","a","r","d"," ">>)>> >>),
      Obj(<< <<kroute_type, Str(<<"C","A","T">>)>> >>),
      Obj(<< <<kROUTETYPE, Null>>, <<kroute_type, Str(<<"S","c","h","o","o","l">>)>> >>),
      Obj(<< <<kROUTETYPE, Str(<<"F","e","r","r","y">>)>> >>),
      Obj(<< <<kROUTETYPE, Str(<<>>)>>, <<kRouteType, Str(tTrain)>> >>) }

TransitFeeds == {Null} \cup {Collection(Numbered(s)) : s \in SeqsUpTo(TransitTemplates, MaxFeed)}

-----------------------------------------------------------------------------
(* Numbers and ordering of texts *)

NaN == [t |-> "nan"]

\* Number.isFinite / Number.isNaN on a numeric result
IsFinite(x) == x.t = "num"
IsNaN(x) == x.t = "nan"

IsDigit(c) == \E i \in 1..10 : DigitChars[i] = c
DigitValue(c) == (CHOOSE i \in 1..10 : DigitChars[i] = c) - 1

RECURSIVE DigitsValue(_)
DigitsValue(s) ==
    IF Len(s) = 0 THEN 0
    ELSE 10 * DigitsValue(SubSeq(s, 1, Len(s) - 1)) + DigitValue(s[Len(s)])

AllDigits(s) == Len(s) > 0 /\ \A i \in 1..Len(s) : IsDigit(s[i])

\* a number with digits after the point: sign, whole part and the decimals
\* without their trailing zeros; a whole number is Num(n)
Decimal(negative, whole, decimals) ==
    LET kept == {i \in 0..Len(decimals) : \A j \in (i + 1)..Len(decimals) : decimals[j] = "0"}
        n == CHOOSE i \in kept : \A j \in kept : i <= j
    IN  IF n = 0 THEN Num(IF negative THEN -whole ELSE whole)
        ELSE [t |-> "num", v |-> IF negative THEN -whole ELSE whole,
              decimals |-> SubSeq(decimals, 1, n), negative |-> negative]

Infinity == [t |-> "inf"]

\* Number(text) for the texts of the model: blank is 0; an optionally signed
\* run of digits with at most one point, before, between or after them, is its
\* value; Infinity is not finite; every other text is NaN
TextToNumber(s) ==
    LET c == Trim(s)
        signed == Len(c) > 0 /\ c[1] \in {"-", "+"}
        body == IF signed THEN Tail(c) ELSE c
        points == {i \in 1..Len(body) : body[i] = "."}
        at == IF points = {} THEN Len(body) + 1 ELSE CHOOSE i \in points : TRUE
        whole == SubSeq(body, 1, at - 1)
        decimals == SubSeq(body, at + 1, Len(body))
    IN  IF Len(c) = 0 THEN Num(0)
        ELSE IF body = <<"I","n","f","i","n","i","t","y">> THEN Infinity
        ELSE IF /\ Cardinality(points) <= 1
                /\ Len(whole) + Len(decimals) > 0
                /\ \A i \in 1..Len(whole) : IsDigit(whole[i])
                /\ \A i \in 1..Len(decimals) : IsDigit(decimals[i])
             THEN Decimal(signed /\ c[1] = "-", DigitsValue(whole), decimals)
        ELSE NaN

\* Number(value)
ToNumber(x) ==
    CASE x.t = "num" -> x
      [] x.t = "null" -> Num(0)
      [] x.t = "str" -> TextToNumber(x.v)
      [] OTHER -> NaN

\* parseInt(text, 10): leading blanks and a sign are skipped, the longest run
\* of digits is read, NaN when there is none
ParseInt(s) ==
    LET blanks == {i \in 0..Len(s) : \A j \in 1..i : IsSpace(s[j])}
        skip == CHOOSE i \in blanks : \A j \in blanks : j <= i
        r == SubSeq(s, skip + 1, Len(s))
        neg == Len(r) > 0 /\ r[1] = "-"
        body == IF Len(r) > 0 /\ r[1] \in {"-", "+"} THEN Tail(r) ELSE r
        lead == {i \in 0..Len(body) : \A j \in 1..i : IsDigit(body[j])}
        n == CHOOSE i \in lead : \A j \in lead : j <= i
    IN  IF n = 0 THEN NaN
        ELSE Num(IF neg THEN -DigitsValue(SubSeq(body, 1, n))
                 ELSE DigitsValue(SubSeq(body, 1, n)))

\* the characters of the model in UTF-16 code unit order
CodeOrder == <<"\t", "\n", " ", "%", "+", "-", ".">> \o DigitChars \o UpperChars
             \o <<"_">> \o LowerChars
CharCode(c) == CHOOSE i \in 1..Len(CodeOrder) : CodeOrder[i] = c

\* a < b in the order of Array.prototype.sort() without a comparator
TextLess(a, b) ==
    \E i \in 1..(Len(b)) :
        /\ \A j \in 1..(i - 1) : j <= Len(a) /\ a[j] = b[j]
        /\ \/ Len(a) = i - 1
           \/ (i <= Len(a) /\ CharCode(a[i]) < CharCode(b[i]))

\* a variant that sorts from the greatest text to the least
RECURSIVE SortTextsDescending(_)
SortTextsDescending(S) ==
    IF S = {} THEN <<>>
    ELSE LET greatest == CHOOSE a \in S : \A b \in S \ {a} : TextLess(b, a)
         IN  <<greatest>> \o SortTextsDescending(S \ {greatest})

RECURSIVE SortTexts(_)
SortTexts(S) ==
    IF S = {} THEN <<>>
    ELSE LET least == CHOOSE a \in S : \A b \in S \ {a} : TextLess(a, b)
         IN  <<least>> \o SortTexts(S \ {least})

Range(seq) == {seq[i] : i \in 1..Len(seq)}

\* seq with x appended unless already there (Set.add in insertion order)
AddOnce(seq, x) == IF x \in Range(seq) THEN seq ELSE Append(seq, x)

RECURSIVE AddAllOnce(_, _)
AddAllOnce(seq, xs) ==
    IF Len(xs) = 0 THEN seq ELSE AddAllOnce(AddOnce(seq, Head(xs)), Tail(xs))

Min(S) == CHOOSE a \in S : \A b \in S : a <= b
Max(S) == CHOOSE a \in S : \A b \in S : b <= a

-----------------------------------------------------------------------------
(* utils/geojson.ts: flattenCoords, computeBounds, buildMetadata *)

\* coord[i] of a position array
At(coord, i) == IF i <= Len(coord) THEN coord[i] ELSE Undefined

RECURSIVE Concat(_)
Concat(seqs) == IF Len(seqs) = 0 THEN <<>> ELSE Head(seqs) \o Concat(Tail(seqs))

\* a variant that does not descend into a GeometryCollection
flattenCoordsFlat(geometry) ==
    IF geometry.t # "obj" THEN <<>>
    ELSE CASE geometry.type = "Point" ->
                <<<<At(geometry.coordinates, 1), At(geometry.coordinates, 2)>>>>
           [] geometry.type \in {"MultiPoint", "LineString"} ->
                geometry.coordinates
           [] geometry.type \in {"MultiLineString", "Polygon"} ->
                Concat(geometry.coordinates)
           [] geometry.type = "MultiPolygon" ->
                Concat([i \in 1..Len(geometry.coordinates) |->
                          Concat(geometry.coordinates[i])])
           [] OTHER -> <<>>
RECURSIVE flattenCoords(_)
flattenCoords(geometry) ==
    IF geometry.t # "obj" THEN <<>>
    ELSE CASE geometry.type = "Point" ->
                <<<<At(geometry.coordinates, 1), At(geometry.coordinates, 2)>>>>
           [] geometry.type \in {"MultiPoint", "LineString"} ->
                geometry.coordinates
           [] geometry.type \in {"MultiLineString", "Polygon"} ->
                Concat(geometry.coordinates)
           [] geometry.type = "MultiPolygon" ->
                Concat([i \in 1..Len(geometry.coordinates) |->
                          Concat(geometry.coordinates[i])])
           [] geometry.type = "GeometryCollection" ->
                Concat([i \in 1..Len(geometry.geometries) |->
                          flattenCoords(geometry.geometries[i])])
           [] OTHER -> <<>>

Geometry(type, coordinates) == [t |-> "obj", type |-> type, coordinates |-> coordinates]
GeometryCollection(geometries) ==
    [t |-> "obj", type |-> "GeometryCollection", geometries |-> geometries]

\* [minLon, minLat, maxLon, maxLat]
Bounds(a, b, c, d) == [t |-> "arr", v |-> <<a, b, c, d>>]

computeBounds(features) ==
    LET points == Concat([i \in 1..Len(features) |-> flattenCoords(features[i].geometry)])
        finite == {i \in 1..Len(points) :
                      IsFinite(At(points[i], 1)) /\ IsFinite(At(points[i], 2))}
        lons == {points[i][1].v : i \in finite}
        lats == {points[i][2].v : i \in finite}
    IN  IF Len(points) = 0 THEN Null
        ELSE IF finite = {} THEN Null
        ELSE Bounds(Min(lons), Min(lats), Max(lons), Max(lats))

kSTE_NAME21 == <<"S","T","E","_","N","A","M","E","2","1">>
kSA2_NAME21 == <<"S","A","2","_","N","A","M","E","2","1">>
kIRAD_decile == <<"I","R","A","D","_","d","e","c","i","l","e">>
kIRSD_score == <<"I","R","S","D","_","s","c","o","r","e">>
kURP == <<"U","R","P">>
SeifaPrefixes == { <<"I","R","S","D","_">>, <<"I","R","A","D","_">>,
                   <<"I","E","R","_">>, <<"I","E","O","_">> }

IsSeifaColumn(name) == (\E p \in SeifaPrefixes : StartsWith(name, p)) \/ name = kURP

\* a variant that cuts the digits after the sixth decimal instead of rounding
HalfTruncated(twice) ==
    IF twice < 0 THEN -(10 * ((-twice) \div 20)) ELSE 10 * (twice \div 20)

\* Number(((a + b) / 2).toFixed(6)) for twice = a + b.  A coordinate n stands
\* for n * 10^-7 degrees, so that the numbers of six decimals are the multiples
\* of 10: toFixed takes the nearest one, and the one away from zero on a tie.
Half(twice) ==
    IF twice < 0 THEN -(10 * ((10 - twice) \div 20)) ELSE 10 * ((twice + 10) \div 20)

\* `value === text` for a property value and a string
StrictEqText(value, text) == value.t = "str" /\ value.v = text

buildMetadata(data) ==
    LET features == data.features
        n == Len(features)
        props(i) == PropsOf(features[i])
        propertyNames == Concat([i \in 1..n |-> props(i).keys])
        stateOf(i) == Get(props(i), kSTE_NAME21)
        sa2Of(i) == Get(props(i), kSA2_NAME21)
        stateKeys == {ToText(stateOf(i)) : i \in {j \in 1..n : Truthy(stateOf(j))}}
        sa2Set(state) == {ToText(sa2Of(i)) :
                            i \in {j \in 1..n : /\ Truthy(stateOf(j))
                                                /\ ToText(stateOf(j)) = state
                                                /\ Truthy(sa2Of(j))}}
        deciles == [i \in 1..n |-> ToNumber(Get(props(i), kIRAD_decile))]
        iradValues == {deciles[i].v : i \in {j \in 1..n : ~IsNaN(deciles[j])}}
        subset(state) == SelectSeq(features,
                            LAMBDA f : StrictEqText(Get(PropsOf(f), kSTE_NAME21), state))
        centred == {state \in stateKeys : computeBounds(subset(state)) # Null}
        names == AddAllOnce(<<>>, propertyNames)
    IN  [states |-> SortTexts(stateKeys),
         sa2ByState |-> [state \in stateKeys |-> SortTexts(sa2Set(state))],
         totalBounds |-> computeBounds(features),
         stateCenters |-> [state \in centred |->
                             LET b == computeBounds(subset(state)).v
                             IN  <<Half(b[2] + b[4]), Half(b[1] + b[3])>>],
         propertyNames |-> names,
         count |-> n,
         iradRange |-> IF iradValues = {} THEN Null
                       ELSE [t |-> "arr", v |-> <<Min(iradValues), Max(iradValues)>>],
         seifaColumns |-> SelectSeq(names, IsSeifaColumn)]

-----------------------------------------------------------------------------
(* utils/schools.ts: computeStage, ensureSchoolStages, summarizeSchools *)

kStage == <<"s","t","a","g","e">>
kLowyear == <<"l","o","w","y","e","a","r">>
kHighyear == <<"h","i","g","h","y","e","a","r">>
kSector == <<"s","e","c","t","o","r">>
kRemotearea == <<"r","e","m","o","t","e","a","r","e","a">>
kRanking_rank == <<"r","a","n","k","i","n","g","_","r","a","n","k">>

tPrimary == <<"p","r","i","m","a","r","y">>
tSecondary == <<"s","e","c","o","n","d","a","r","y">>
tCombined == <<"c","o","m","b","i","n","e","d">>
tOther == <<"o","t","h","e","r">>
StageKeys == {tPrimary, tSecondary, tCombined, tOther}
\* a variant that compares the year codes as written: no toUpperCase()
computeStageAsWritten(lowYear, highYear) ==
    LET normalize(value) == OrElse(value, Str(<<>>)).v
        low == normalize(lowYear)
        high == normalize(highYear)
        toInt(value) ==
            IF StartsWith(value, <<"Y">>) /\ Len(value) >= 3
            THEN LET parsed == ParseInt(SubSeq(value, 2, 3))
                 IN  IF IsNaN(parsed) THEN Null ELSE parsed
            ELSE Null
        lowNum == toInt(low)
        highNum == toInt(high)
        hasPrimary ==
            \/ low \in { <<"K","I","N">>, <<"P","P">>, <<"P">> }
            \/ high \in { <<"K","I","N">>, <<"P","P">>, <<"P">> }
            \/ (lowNum # Null /\ lowNum.v <= 6)
            \/ (highNum # Null /\ highNum.v <= 6)
        hasSecondary ==
            \/ (lowNum # Null /\ lowNum.v >= 7)
            \/ (highNum # Null /\ highNum.v >= 7)
    IN  IF hasPrimary /\ hasSecondary THEN tCombined
        ELSE IF hasPrimary THEN tPrimary
        ELSE IF hasSecondary THEN tSecondary
        ELSE tOther
EarlyYearCodes == { <<"K","I","N">>, <<"P","P">>, <<"P">> }

\* the arguments are a string, null or undefined
computeStage(lowYear, highYear) ==
    LET normalize(value) == ToUpperCase(OrElse(value, Str(<<>>)).v)
        low == normalize(lowYear)
        high == normalize(highYear)
        toInt(value) ==
            IF StartsWith(value, <<"Y">>) /\ Len(value) >= 3
            THEN LET parsed == ParseInt(SubSeq(value, 2, 3))
                 IN  IF IsNaN(parsed) THEN Null ELSE parsed
            ELSE Null
        lowNum == toInt(low)
        highNum == toInt(high)
        hasPrimary ==
            \/ low \in EarlyYearCodes \/ high \in EarlyYearCodes
            \/ (lowNum # Null /\ lowNum.v <= 6)
            \/ (highNum # Null /\ highNum.v <= 6)
        hasSecondary ==
            \/ (lowNum # Null /\ lowNum.v >= 7)
            \/ (highNum # Null /\ highNum.v >= 7)
    IN  IF hasPrimary /\ hasSecondary THEN tCombined
        ELSE IF hasPrimary THEN tPrimary
        ELSE IF hasSecondary THEN tSecondary
        ELSE tOther

\* a variant that computes the stage of every feature, staged or not
withStageAlways(feature) ==
    LET props == IF Truthy(feature.properties) THEN feature.properties ELSE EmptyObj
    IN  [feature EXCEPT !.properties =
            SetProp(props, kStage,
                    Str(computeStage(Get(props, kLowyear), Get(props, kHighyear))))]
\* the feature as the map callback leaves it
withStage(feature) ==
    LET props == IF Truthy(feature.properties) THEN feature.properties ELSE EmptyObj
    IN  [feature EXCEPT !.properties =
            IF Truthy(Get(props, kStage)) THEN props
            ELSE SetProp(props, kStage,
                         Str(computeStage(Get(props, kLowyear), Get(props, kHighyear))))]

ensureSchoolStages(collection) ==
    IF ~Truthy(collection) THEN Null
    ELSE Collection([i \in 1..Len(collection.features) |->
                        withStage(collection.features[i])])

\* the collection passed to ensureSchoolStages as the call leaves it: the map
\* callback assigns to feature.properties and to feature.properties.stage of
\* the features of the argument, the collection object itself is not written
ensureSchoolStagesInput(collection) ==
    IF ~Truthy(collection) THEN collection
    ELSE [collection EXCEPT !.features =
             [i \in 1..Len(collection.features) |-> withStage(collection.features[i])]]

\* a histogram: the trimmed text of `key` -> the number of features carrying it
\* (for texts that are not names of members of Object.prototype)
histogram(features, key) ==
    LET text(i) == Trim(ToText(OrElse(Get(PropsOf(features[i]), key), Str(<<>>))))
        keys == {text(i) : i \in 1..Len(features)} \ {<<>>}
    IN  [k \in keys |-> Cardinality({i \in 1..Len(features) : text(i) = k})]

tConstructor == <<"c","o","n","s","t","r","u","c","t","o","r">>
tProto == <<"_","_","p","r","o","t","o","_","_">>

\* stageCounts is an object literal, so stageCounts[stage] also finds what the
\* literal inherits from Object.prototype.  The stage is lower-cased before the
\* lookup, and the inherited names spelled in lower case are these two.
InheritedNames == {tConstructor, tProto}

\* stageCounts.constructor after n features: the inherited function with 1
\* appended as text by each `+= 1`
ConstructorPlus(n) ==
    Str(<<"function Object() { [native code] }">> \o [j \in 1..n |-> "1"])

summarizeSchools(collection) ==
    IF NoFeatures(collection) THEN Null
    ELSE LET features == collection.features
             stage(i) == ToLowerCase(OrElse(Get(PropsOf(features[i]), kStage),
                                            Str(tOther)).v)
             \* the key `+= 1` is applied to; an assignment to __proto__ of a
             \* value that is not an object is ignored
             bucket(i) == IF stage(i) \in StageKeys \cup InheritedNames THEN stage(i)
                          ELSE tOther
             at(k) == {i \in 1..Len(features) : bucket(i) = k}
             keys == StageKeys \cup (IF at(tConstructor) # {} THEN {tConstructor} ELSE {})
         IN  [t |-> "obj",
              count |-> Len(features),
              sectorCounts |-> histogram(features, kSector),
              remoteCounts |-> histogram(features, kRemotearea),
              stageCounts |-> [k \in keys |->
                  IF k \in StageKeys THEN Cardinality(at(k))
                  ELSE ConstructorPlus(Cardinality(at(k)))]]

\* value.replace(/%/g, "")
WithoutPercent(s) == SelectSeq(s, LAMBDA c : c # "%")

\* the argument is a number, a string, null, undefined or an object
FiniteOrNull(parsed) == IF IsFinite(parsed) THEN parsed ELSE Null

\* the string branch: cleaned is the text without percent signs, trimmed
parseCleaned(cleaned) ==
    IF Len(cleaned) = 0 THEN Null ELSE FiniteOrNull(TextToNumber(cleaned))

parsePercentile(value) ==
    IF Nullish(value) THEN Null
    ELSE IF value.t = "num" THEN value
    ELSE IF value.t = "str" THEN parseCleaned(Trim(WithoutPercent(value.v)))
    ELSE Null

-----------------------------------------------------------------------------
(* utils/loaders.ts: fetchJson, summarizeCatchments, loadArcgisManifest,     *)
(* loadMapData                                                               *)

\* a message, kept whole
Message(s) == Str(<<s>>)

\* what fetch() and response.json() may do for one request
NetworkError == [kind |-> "reject"]
HttpResponse(ok, valid, value) ==
    [kind |-> "response", ok |-> ok, valid |-> valid, value |-> value]

fetchJson(response) ==
    IF response.kind = "reject" THEN Null          \* fetch threw: catch
    ELSE IF ~response.ok THEN Null                 \* !response.ok
    ELSE IF ~response.valid THEN Null              \* response.json() threw: catch
    ELSE response.value

kCatchment_level == <<"c","a","t","c","h","m","e","n","t","_","l","e","v","e","l">>
tHigh == <<"h","i","g","h">>
CatchmentLevels == <<tPrimary, tHigh, tOther>>

\* a variant that keeps a level with no feature as an empty collection
summarizeCatchmentsKeepEmpty(data) ==
    IF NoFeatures(data)
    THEN [layers |-> NoLayers, summary |-> Null,
          warning |-> Message("Catchment GeoJSON not found or empty.")]
    ELSE LET collect(level) ==
                 SelectSeq(data.features,
                     LAMBDA f : StrictEqText(Get(PropsOf(f), kCatchment_level), level))
             layers == [level \in Range(CatchmentLevels) |-> Collection(collect(level))]
         IN  [layers |-> layers,
              summary |-> [t |-> "obj",
                           count |-> Len(data.features),
                           levels |-> [level \in Range(CatchmentLevels) |->
                                         Len(layers[level].features)]],
              warning |-> Undefined]

summarizeCatchments(data) ==
    IF NoFeatures(data)
    THEN [layers |-> NoLayers, summary |-> Null,
          warning |-> Message("Catchment GeoJSON not found or empty.")]
    ELSE LET collect(level) ==
                 SelectSeq(data.features,
                     LAMBDA f : StrictEqText(Get(PropsOf(f), kCatchment_level), level))
             present == {level \in Range(CatchmentLevels) : Len(collect(level)) > 0}
             layers == [level \in present |-> Collection(collect(level))]
         IN  [layers |-> layers,
              summary |-> [t |-> "obj",
                           count |-> Len(data.features),
                           levels |-> [level \in present |-> Len(layers[level].features)]],
              warning |-> Undefined]

Manifest(layers) == [t |-> "obj", layers |-> layers]

loadArcgisManifest(manifest) ==
    IF ~Truthy(manifest) THEN Manifest(<<>>) ELSE manifest

\* a variant that also refuses an SA1 collection without features
SA1MissingOrEmpty(sa1) == NoFeatures(sa1)

\* `!sa1`: loadMapData throws
SA1Missing(sa1) == ~Truthy(sa1)

RequiredError ==
    [t |-> "error",
     message |-> Message("SA1 dataset is required. Ensure assets are generated under /assets.")]

rankingWarningOf(stagedSchools) ==
    IF NoFeatures(stagedSchools) THEN Undefined
    ELSE IF \E i \in 1..Len(stagedSchools.features) :
                /\ Truthy(stagedSchools.features[i].properties)
                /\ ~Nullish(Get(stagedSchools.features[i].properties, kRanking_rank))
         THEN Undefined
         ELSE Message("Ranking attributes missing from processed schools GeoJSON.")

transitWarningOf(transitSource) ==
    IF Truthy(transitSource) THEN Undefined
    ELSE Message("Transit GeoJSON missing from assets.")

schoolsWarningOf(stagedSchools) ==
    IF Truthy(stagedSchools) THEN Undefined
    ELSE Message("Schools GeoJSON missing from assets.")

seifaWarningOf(metadata) ==
    IF Len(metadata.seifaColumns) > 0 THEN Undefined
    ELSE Message("SEIFA fields missing from SA1 GeoJSON.")

\* the value loadMapData settles with, given what the five promises of
\* Promise.all resolved with
loadMapData(sa1, transitSource, schools, catchmentsSource, arcgisManifest) ==
    IF SA1Missing(sa1) THEN RequiredError
    ELSE LET metadata == buildMetadata(sa1)
             stagedSchools == ensureSchoolStages(schools)
             catchments == summarizeCatchments(catchmentsSource)
         IN  [t |-> "obj",
              sa1 |-> sa1,
              metadata |-> metadata,
              transit |-> groupTransitLayers(transitSource),
              schools |-> stagedSchools,
              schoolsSummary |-> summarizeSchools(stagedSchools),
              catchments |-> catchments.layers,
              catchmentsSummary |-> catchments.summary,
              catchmentsWarning |-> catchments.warning,
              transitWarning |-> transitWarningOf(transitSource),
              schoolsWarning |-> schoolsWarningOf(stagedSchools),
              rankingWarning |-> rankingWarningOf(stagedSchools),
              seifaWarning |-> seifaWarningOf(metadata),
              arcgisManifest |-> arcgisManifest]

-----------------------------------------------------------------------------
(* Initial values of the parts a specification does not exercise *)

Datasets == {"sa1", "transit", "schools", "catchments", "manifest"}

\* useState("1=1")
DefaultWhere == <<"1","=","1">>

InitialHookState == [loading |-> TRUE, error |-> Undefined, data |-> Undefined]

LoadIdle ==
    /\ fetchStatus = [d \in Datasets |-> "idle"]
    /\ fetchResult = [d \in Datasets |-> Undefined]
    /\ loadPromise = "none"
    /\ loadValue = Undefined

HookIdle ==
    /\ hookState = InitialHookState
    /\ hookCancelled = FALSE
    /\ hookPc = "init"
    /\ mounted = FALSE

CallIdle ==
    /\ callArg = Undefined
    /\ callRet = Undefined
    /\ callInput = Undefined
    /\ callPc = "none"

\* the useState initial values of App
AppIdle ==
    /\ selectedProcessedLayers = <<>>
    /\ processedLayerData = NoLayers
    /\ processedLayerError = Null
    /\ runs = <<>>
    /\ fetches = <<>>
    /\ temporaryArcgis = <<>>
    /\ arcgisName = <<>>
    /\ arcgisUrl = <<>>
    /\ arcgisWhere = DefaultWhere
    /\ arcgisError = Null
    /\ addingArcgis = FALSE
    /\ arcgisCalls = <<>>
    /\ kmzLayers = <<>>
    /\ kmzError = Null
    /\ kmzLoading = FALSE
    /\ uploads = <<>>
    /\ addressQuery = <<>>
    /\ addressPin = Null
    /\ geocodeStatus = Null
    /\ searches = <<>>
    /\ selectedState = Null
    /\ selectedSchool = Null
    /\ selectedSa1 = Null
    /\ percentileMax = Null
    /\ viewPc = "idle"

-----------------------------------------------------------------------------
(* SpecLoad: one load cycle, from the mount of useMapData to its reaction *)

Point(lon, lat) == Geometry("Point", <<Num(lon), Num(lat)>>)

Sa1Templates ==
    { [properties |-> Null, geometry |-> Null],
      [properties |-> Obj(<< <<kURP, Num(120)>> >>), geometry |-> Point(115, -32)],
      [properties |-> Obj(<< <<kSTE_NAME21, Str(<<"W","A">>)>>,
                             <<kSA2_NAME21, Str(<<"P","e","r","t","h">>)>>,
                             <<kIRAD_decile, Num(5)>> >>),
       geometry |-> Point(116, -31)],
      [properties |-> Obj(<< <<kSTE_NAME21, Str(<<"N","T">>)>>,
                             <<kIRAD_decile, Null>> >>),
       geometry |-> Null] }

TransitLoadTemplates ==
    { EmptyObj, Obj(<< <<kROUTETYPE, Str(<<"T","r","a","i","n">>)>> >>) }

SchoolTemplates ==
    { Obj(<< <<kLowyear, Str(<<"P","P">>)>>, <<kHighyear, Str(<<"Y","0","6">>)>>,
             <<kRanking_rank, Num(3)>> >>),
      Obj(<< <<kStage, Str(<<"S","e","c","o","n","d","a","r","y">>)>>,
             <<kSector, Str(<<" ","G","o","v"," ">>)>> >>) }

CatchmentTemplates ==
    { Obj(<< <<kCatchment_level, Str(tPrimary)>> >>),
      Obj(<< <<kCatchment_level, Str(<<"z","o","n","e">>)>> >>) }

ManifestEntry(name, file) == [name |-> name, file |-> file]
EntryA == ManifestEntry("A", <<"/","a">>)
EntryB == ManifestEntry("B", <<"b">>)
Manifests == {Manifest(<<>>), Manifest(<<EntryA>>), Manifest(<<EntryA, EntryB>>)}

\* the JSON documents a dataset file may hold
Payloads(d) ==
    CASE d = "sa1" ->
            {Collection(GeoNumbered(q)) : q \in SeqsUpTo(Sa1Templates, MaxLoadFeatures)}
      [] d = "transit" ->
            {Collection(Numbered(q)) : q \in SeqsUpTo(TransitLoadTemplates, MaxLoadFeatures)}
      [] d = "schools" ->
            {Collection(Numbered(q)) : q \in SeqsUpTo(SchoolTemplates, MaxLoadFeatures)}
      [] d = "catchments" ->
            {Collection(Numbered(q)) : q \in SeqsUpTo(CatchmentTemplates, MaxLoadFeatures)}
      [] OTHER -> Manifests

Responses(d) ==
    {NetworkError, HttpResponse(FALSE, TRUE, Null), HttpResponse(TRUE, FALSE, Null)}
        \cup {HttpResponse(TRUE, TRUE, v) : v \in Payloads(d)}

\* a variant that continues as soon as one promise has settled (Promise.race)
AnySettled(status) == \E d \in Datasets : status[d] = "settled"

\* Promise.all: every promise of the array has settled
AllSettled(status) == \A d \in Datasets : status[d] = "settled"

\* a variant of the callbacks without the `cancelled` check
PublishAlways(cancelled, state, next) == next

\* the then / catch callbacks: setState unless cancelled
Publish(cancelled, state, next) == IF ~cancelled THEN next ELSE state

InitLoad ==
    /\ fetchStatus = [d \in Datasets |-> "idle"]
    /\ fetchResult = [d \in Datasets |-> Undefined]
    /\ loadPromise = "none"
    /\ loadValue = Undefined
    /\ hookState = InitialHookState
    /\ hookCancelled = FALSE
    /\ hookPc = "init"
    /\ mounted = TRUE
    /\ CallIdle /\ AppIdle

\* useEffect on mount: loadMapData() evaluates the array given to Promise.all,
\* which calls fetchJson four times and loadArcgisManifest once
MountEffect ==
    /\ hookPc = "init" /\ mounted
    /\ hookCancelled' = FALSE
    /\ fetchStatus' = [d \in Datasets |-> "pending"]
    /\ loadPromise' = "pending"
    /\ hookPc' = "waiting"
    /\ UNCHANGED <<fetchResult, loadValue, hookState, mounted, callVars, appVars>>

\* one fetchJson settles
FetchSettle(d) ==
    /\ fetchStatus[d] = "pending"
    /\ \E response \in Responses(d) :
          fetchResult' = [fetchResult EXCEPT ![d] = fetchJson(response)]
    /\ fetchStatus' = [fetchStatus EXCEPT ![d] = "settled"]
    /\ UNCHANGED <<loadPromise, loadValue, hookVars, callVars, appVars>>

\* the five values `await Promise.all([...])` destructures
loadOutcome(results) ==
    loadMapData(results["sa1"], results["transit"], results["schools"],
                results["catchments"], loadArcgisManifest(results["manifest"]))

\* the continuation of loadMapData after `await Promise.all([...])`
LoadSettle ==
    /\ loadPromise = "pending"
    /\ AllSettled(fetchStatus)
    /\ loadValue' = loadOutcome(fetchResult)
    /\ loadPromise' = IF loadValue'.t = "error" THEN "rejected" ELSE "resolved"
    /\ UNCHANGED <<fetchStatus, fetchResult, hookVars, callVars, appVars>>

\* .then((data) => ...) of useMapData
ThenReaction ==
    /\ hookPc = "waiting" /\ loadPromise = "resolved"
    /\ hookState' = Publish(hookCancelled, hookState,
                            [loading |-> FALSE, error |-> Undefined, data |-> loadValue])
    /\ hookPc' = "done"
    /\ UNCHANGED <<loadVars, hookCancelled, mounted, callVars, appVars>>

\* .catch((error) => ...) of useMapData
CatchReaction ==
    /\ hookPc = "waiting" /\ loadPromise = "rejected"
    /\ hookState' = Publish(hookCancelled, hookState,
                            [loading |-> FALSE, error |-> loadValue.message,
                             data |-> Undefined])
    /\ hookPc' = "done"
    /\ UNCHANGED <<loadVars, hookCancelled, mounted, callVars, appVars>>

\* the effect's cleanup, run when the consumer is torn down
HookCleanup ==
    /\ mounted /\ hookPc # "init"
    /\ hookCancelled' = TRUE
    /\ mounted' = FALSE
    /\ UNCHANGED <<loadVars, hookState, hookPc, callVars, appVars>>

NextLoad ==
    \/ MountEffect
    \/ \E d \in Datasets : FetchSettle(d)
    \/ LoadSettle
    \/ ThenReaction
    \/ CatchReaction
    \/ HookCleanup

SpecLoad == InitLoad /\ [][NextLoad]_vars

-----------------------------------------------------------------------------
(* utils/kmz.ts: parseKmlText, extractKmlFromKmz, loadKmzLayer *)

EndsWith(s, p) == Len(p) <= Len(s) /\ SubSeq(s, Len(s) - Len(p) + 1, Len(s)) = p

extKmz == <<".","k","m","z">>
extKml == <<".","k","m","l">>

\* the result of an operation that may throw; message is a text
Returned(value) == [ok |-> TRUE, value |-> value]
Thrown(message) == [ok |-> FALSE, message |-> message]

\* what kmlToGeojson made of a document: hasFeatures is `geojson.features`
\* being an array
Converted(hasFeatures, features) ==
    [t |-> "obj", hasFeatures |-> hasFeatures, features |-> features]

\* an uploaded file: its name, whether JSZip can read it, the names of the
\* archive's entries, and what the conversion of its KML text gives
UploadedFile(name, readable, entries, converted) ==
    [name |-> name, readable |-> readable, entries |-> entries, converted |-> converted]

parseKmlText(geojson) ==
    IF ~Truthy(geojson) \/ ~geojson.hasFeatures
    THEN Thrown(<<"KML document did not contain features.">>)
    ELSE Returned(Collection(geojson.features))

\* a variant that reads the first entry of the archive, whatever its name
extractKmlFromKmzAnyEntry(file) ==
    IF ~file.readable THEN Thrown(<<"Can't find end of central directory">>)
    ELSE IF Len(file.entries) > 0
         THEN Returned(file.converted)
         ELSE Thrown(<<"KMZ archive does not contain a KML file.">>)

extractKmlFromKmz(file) ==
    IF ~file.readable THEN Thrown(<<"Can't find end of central directory">>)
    ELSE IF \E i \in 1..Len(file.entries) : EndsWith(ToLowerCase(file.entries[i]), extKml)
         THEN Returned(file.converted)
         ELSE Thrown(<<"KMZ archive does not contain a KML file.">>)

loadKmzLayer(file) ==
    IF EndsWith(ToLowerCase(file.name), extKmz)
    THEN IF extractKmlFromKmz(file).ok
         THEN parseKmlText(extractKmlFromKmz(file).value)
         ELSE extractKmlFromKmz(file)
    ELSE IF EndsWith(ToLowerCase(file.name), extKml)
         THEN parseKmlText(file.converted)
         ELSE Thrown(<<"Only KMZ or KML files are supported.">>)

-----------------------------------------------------------------------------
(* App.tsx: the asynchronous operations *)

\* a FeatureCollection as one response carries it; k tells responses apart
Fetched(k) == Collection(<<Feature(k, EmptyObj)>>)

Layer(name, data) == [name |-> name, data |-> data]

\* a variant that forgets the current value: () => [layer]
OnlyLayer(prev, layer) == <<layer>>

\* a variant that puts the layer first: (prev) => [layer, ...prev]
PrependLayer(prev, layer) == <<layer>> \o prev

\* (prev) => [...prev, layer]
AppendLayer(prev, layer) == Append(prev, layer)

\* a variant that forgets the current value: () => ({ [name]: payload })
OnlyProcessed(prev, name, payload) == [k \in {name} |-> payload]

\* (prev) => ({ ...prev, [name]: payload })
MergeProcessed(prev, name, payload) ==
    [k \in DOMAIN prev \cup {name} |-> IF k = name THEN payload ELSE prev[k]]

tWesternAustralia ==
    <<"W","e","s","t","e","r","n"," ","A","u","s","t","r","a","l","i","a">>

\* the effect that picks the default state: the state to hold after it
DefaultStateEffect(data, state) ==
    IF Truthy(data) /\ ~Truthy(state) /\ Len(data.metadata.states) > 0
    THEN Str(IF tWesternAustralia \in Range(data.metadata.states)
             THEN tWesternAustralia
             ELSE data.metadata.states[1])
    ELSE state

\* a variant of the effect below that keeps the selected SA1
ClearingEffectKeep(state, sa1) == sa1

\* the effect on [selectedState, selectedSa1]: the SA1 to hold after it
ClearingEffect(state, sa1) ==
    IF ~Truthy(state) \/ sa1 = Null THEN sa1
    ELSE IF /\ Truthy(Get(PropsOf(sa1), kSTE_NAME21))
            /\ Get(PropsOf(sa1), kSTE_NAME21) # state
         THEN Null
         ELSE sa1

kRanking_percentile ==
    <<"r","a","n","k","i","n","g","_","p","e","r","c","e","n","t","i","l","e">>

\* the memo filteredSa1: data is the snapshot or null
filteredSa1(data, state) ==
    IF ~Truthy(data) THEN Null
    ELSE Collection(SelectSeq(data.sa1.features,
            LAMBDA feature : \/ ~Truthy(state)
                             \/ Get(PropsOf(feature), kSTE_NAME21) = state))

\* parsePercentile(feature.properties?.ranking_percentile)
percentileOf(feature) == parsePercentile(Get(PropsOf(feature), kRanking_percentile))

\* the non-null parsed percentiles of the features
ParsedPercentiles(features) ==
    {p.v : p \in {percentileOf(features[i]) : i \in 1..Len(features)} \ {Null}}

\* Math.min(100, Math.max(...values)), null when there is no value
CappedMaximum(values) ==
    IF values = {} THEN Null ELSE Num(Min({100, Max(values)}))

\* the memo schoolPercentileDefault
schoolPercentileDefault(data) ==
    IF ~Truthy(data) \/ NoFeatures(data.schools) THEN Null
    ELSE CappedMaximum(ParsedPercentiles(data.schools.features))

\* schoolPercentileDefault ?? 100
DefaultMax(default) == IF Nullish(default) THEN 100 ELSE default.v

\* pct != null && pct <= percentileMax
WithinMax(pct, limit) == ~Nullish(pct) /\ pct.v <= limit.v

\* a variant that keeps the schools strictly below percentileMax
filteredSchoolsBelow(data, limit) ==
    IF ~Truthy(data) \/ ~Truthy(data.schools) THEN <<>>
    ELSE IF Nullish(limit) THEN data.schools.features
    ELSE IF ~(limit.v < DefaultMax(schoolPercentileDefault(data)))
         THEN data.schools.features
    ELSE SelectSeq(data.schools.features,
                   LAMBDA feature : /\ WithinMax(percentileOf(feature), limit)
                                    /\ percentileOf(feature).v # limit.v)

\* the memo filteredSchools: limit is percentileMax, a number or null
filteredSchools(data, limit) ==
    IF ~Truthy(data) \/ ~Truthy(data.schools) THEN <<>>
    ELSE IF Nullish(limit) THEN data.schools.features
    ELSE IF ~(limit.v < DefaultMax(schoolPercentileDefault(data)))
         THEN data.schools.features
    ELSE SelectSeq(data.schools.features,
                   LAMBDA feature : WithinMax(percentileOf(feature), limit))

\* selectedProcessedLayers.filter((name) => !processedLayerData[name])
missingProcessed(selected, data) ==
    SelectSeq(selected, LAMBDA name : ~(name \in DOMAIN data /\ Truthy(data[name])))

\* data.arcgisManifest.layers.find((layer) => layer.name === name)
HasEntry(manifest, name) ==
    \E i \in 1..Len(manifest.layers) : manifest.layers[i].name = name

\* a variant of the loop below that ends after its first fetch
NextFetchOnce(manifest, missing, i) ==
    LET rest == {j \in i..Len(missing) : HasEntry(manifest, missing[j])}
    IN  IF i > 1 \/ rest = {} THEN Len(missing) + 1 ELSE Min(rest)

\* the first index from i on whose name has a manifest entry (the loop skips
\* the others with `continue`), Len(missing) + 1 when the loop ends
NextFetch(manifest, missing, i) ==
    LET rest == {j \in i..Len(missing) : HasEntry(manifest, missing[j])}
    IN  IF rest = {} THEN Len(missing) + 1 ELSE Min(rest)

Fetch(run, name) == [status |-> "pending", run |-> run, name |-> name]

\* a run of loadSelected() up to its first await
StartRun(manifest, missing) ==
    [missing |-> missing, i |-> NextFetch(manifest, missing, 1), cancelled |-> FALSE]

CancelAll(rs) == [r \in 1..Len(rs) |-> [rs[r] EXCEPT !.cancelled = TRUE]]

\* the fetches once run r has reached the fetch of its name i
WithFetch(fs, rs, r) ==
    IF rs[r].i <= Len(rs[r].missing)
    THEN Append(fs, Fetch(r, rs[r].missing[rs[r].i]))
    ELSE fs

\* the lazy-loader effect after a render that changed missingProcessed: the
\* cleanup of the previous run, then a new run unless nothing is missing
EffectRuns(manifest, rs, selected, data) ==
    IF Len(missingProcessed(selected, data)) = 0 THEN CancelAll(rs)
    ELSE Append(CancelAll(rs), StartRun(manifest, missingProcessed(selected, data)))

EffectFetches(manifest, fs, rs, selected, data) ==
    IF Len(missingProcessed(selected, data)) = 0 THEN fs
    ELSE WithFetch(fs, EffectRuns(manifest, rs, selected, data), Len(rs) + 1)

\* what a request for a processed layer file may come to
LayerResponses(k) ==
    {HttpResponse(FALSE, TRUE, Null), HttpResponse(TRUE, TRUE, Fetched(k))}

\* the body of the try block of loadSelected for one response
layerPayload(response) ==
    IF response.kind = "reject" THEN Thrown(<<"Failed to fetch">>)
    ELSE IF ~response.ok THEN Thrown(<<"Not Found">>)
    ELSE IF ~response.valid THEN Thrown(<<"Unexpected token">>)
    ELSE Returned(response.value)

FailedToLoad(name, message) == Str(<<"Failed to load ", name, ": ">> \o message)

\* fetchArcgisGeojson for one response
\* the error object of an ArcGIS answer; a message may be missing (<<>>)
ArcgisError(message) == [t |-> "obj", message |-> message]
ArcgisErrorBody == [t |-> "obj", error |-> ArcgisError(<<"Invalid query">>)]
ArcgisResponses(k) ==
    {HttpResponse(FALSE, TRUE, Null), HttpResponse(TRUE, TRUE, ArcgisErrorBody),
     HttpResponse(TRUE, TRUE, Fetched(k))}

\* a variant that does not look for an error object in the payload
fetchArcgisGeojsonUnchecked(response) ==
    IF response.kind = "reject" THEN Thrown(<<"Failed to fetch">>)
    ELSE IF ~response.ok THEN Thrown(<<"ArcGIS request failed: ", "Not Found">>)
    ELSE IF ~response.valid THEN Thrown(<<"Unexpected token">>)
    ELSE Returned(response.value)

\* data.error
HasError(data) == "error" \in DOMAIN data /\ Truthy(data.error)

fetchArcgisGeojson(response) ==
    IF response.kind = "reject" THEN Thrown(<<"Failed to fetch">>)
    ELSE IF ~response.ok THEN Thrown(<<"ArcGIS request failed: ", "Not Found">>)
    ELSE IF ~response.valid THEN Thrown(<<"Unexpected token">>)
    ELSE IF HasError(response.value)
         THEN Thrown(IF Len(response.value.error.message) > 0
                     THEN response.value.error.message
                     ELSE <<"ArcGIS error">>)
         ELSE Returned(response.value)

tArcgisLayer == <<"A","r","c","G","I","S"," ","l","a","y","e","r">>

\* arcgisName.trim() || "ArcGIS layer"
arcgisLayerName(name) == IF Len(Trim(name)) > 0 THEN Trim(name) ELSE tArcgisLayer

\* file.name.replace(/\\.(kmz|kml)$/i, "") || file.name : the pattern asks
\* for a backslash, one more character and the extension letters
kmzLayerName(name) ==
    LET n == Len(name)
        stripped == IF /\ n >= 5
                       /\ name[n - 4] = "\\"
                       /\ ToLowerCase(SubSeq(name, n - 2, n))
                             \in {<<"k","m","z">>, <<"k","m","l">>}
                    THEN SubSeq(name, 1, n - 5)
                    ELSE name
    IN  IF Len(stripped) > 0 THEN stripped ELSE name

\* parseFloat on the coordinates of the model, which are whole degrees
parseFloat(s) == ParseInt(s)

\* a JSON array
Arr(items) == [t |-> "arr", items |-> items]

\* the Nominatim answers
GeocodeMatch ==
    [lat |-> <<"-","3","2">>, lon |-> <<"1","1","6">>,
     display_name |-> <<"P","e","r","t","h">>]
GeocodeResponses ==
    {HttpResponse(FALSE, TRUE, Null), HttpResponse(TRUE, TRUE, Arr(<<>>)),
     HttpResponse(TRUE, TRUE, Arr(<<GeocodeMatch>>))}

\* [addressPin, geocodeStatus] after the try / catch of handleGeocode
geocodeOutcome(pin, response) ==
    IF response.kind = "reject"
    THEN <<pin, Str(<<"Geocoding failed: ", "Failed to fetch">>)>>
    ELSE IF ~response.ok
    THEN <<pin, Str(<<"Geocoding failed: ", "Not Found">>)>>
    ELSE IF ~response.valid
    THEN <<pin, Str(<<"Geocoding failed: ", "Unexpected token">>)>>
    ELSE IF response.value.t = "arr" /\ Len(response.value.items) > 0
    THEN << [t |-> "obj", lat |-> parseFloat(response.value.items[1].lat),
             lon |-> parseFloat(response.value.items[1].lon),
             address |-> response.value.items[1].display_name],
            Message("Address located on the map.") >>
    ELSE <<pin, Message("Address not found.")>>

-----------------------------------------------------------------------------
(* SpecApp: the asynchronous operations of the App once the snapshot has
   loaded.  The handlers of the state selector, the percentile slider, the
   image layers, the name and where fields and the Remove buttons are left
   out: they start nothing asynchronous. *)

\* the results of a load in which only the required dataset and the manifest
\* were served
AppResults(manifest) ==
    [d \in Datasets |->
        CASE d = "sa1" -> Collection(<<GeoFeature(1, Null, Null)>>)
          [] d = "manifest" -> manifest
          [] OTHER -> Null]

\* what the user may type and upload
ArcgisUrls == {<<>>, <<" ", "u">>}
AddressQueries == {<<>>, <<"q", " ">>}
NoConversion == Converted(FALSE, <<>>)
Files ==
    { UploadedFile(<<"a",".","K","M","Z">>, TRUE, <<<<"d",".","K","M","L">>>>,
                   Converted(TRUE, <<Feature(1, EmptyObj)>>)),
      UploadedFile(<<"b",".","k","m","z">>, TRUE, <<<<"r">>>>, NoConversion),
      UploadedFile(<<"d",".","t","x","t">>, TRUE, <<>>, NoConversion) }

\* whether loadKmzLayer reaches an await on the file
AwaitsFile(file) ==
    \/ EndsWith(ToLowerCase(file.name), extKmz)
    \/ EndsWith(ToLowerCase(file.name), extKml)

\* the options of the multiple select, and the selections one change can leave
OptionNames(manifest) == [i \in 1..Len(manifest.layers) |-> manifest.layers[i].name]
Selections(manifest) ==
    { SelectSeq(OptionNames(manifest), LAMBDA name : name \in chosen) :
        chosen \in SUBSET Range(OptionNames(manifest)) }

\* the runs of the lazy loader and the handler calls so far
Starts == Len(runs) + Len(arcgisCalls) + Len(uploads) + Len(searches)

\* a call that reached its await, and one that returned before it
Call(input) == [status |-> "pending", input |-> input]
Refused(input) == [status |-> "refused", input |-> input]
Settle(calls, k, status) == [calls EXCEPT ![k].status = status]

InitApp ==
    /\ fetchResult = AppResults(Manifest(<<EntryA, EntryB>>))
    /\ loadValue = loadOutcome(fetchResult)
    /\ fetchStatus = [d \in Datasets |-> "settled"]
    /\ loadPromise = "resolved"
    /\ hookState = [loading |-> FALSE, error |-> Undefined, data |-> loadValue]
    /\ hookCancelled = FALSE
    /\ hookPc = "done"
    /\ mounted = TRUE
    /\ CallIdle /\ AppIdle

\* onChange of the multiple select, then the effects of the next render
SelectLayers(selected) ==
    /\ mounted
    /\ Starts < MaxStarts
    /\ selected # selectedProcessedLayers
    /\ selectedProcessedLayers' = selected
    /\ runs' = EffectRuns(hookState.data.arcgisManifest, runs, selected, processedLayerData)
    /\ fetches' = EffectFetches(hookState.data.arcgisManifest, fetches, runs, selected,
                                processedLayerData)
    /\ UNCHANGED <<viewVars, loadVars, hookVars, callVars, processedLayerData,
                   processedLayerError,
                   arcgisVars, kmzVars, geocodeVars>>

\* run r of loadSelected after the fetch of its name i: the loop goes on
Advance(manifest, rs, r) ==
    [rs EXCEPT ![r].i = NextFetch(manifest, rs[r].missing, rs[r].i + 1)]

\* fetch k settles in a run that was not cancelled and the payload is merged;
\* the loop goes on and the next render re-runs the effect
ProcessedMerged(k, payload) ==
    /\ processedLayerData' = MergeProcessed(processedLayerData, fetches[k].name, payload)
    /\ runs' = EffectRuns(hookState.data.arcgisManifest,
                          Advance(hookState.data.arcgisManifest, runs, fetches[k].run),
                          selectedProcessedLayers, processedLayerData')
    /\ fetches' = EffectFetches(
                     hookState.data.arcgisManifest,
                     WithFetch(Settle(fetches, k, "ok"),
                               Advance(hookState.data.arcgisManifest, runs, fetches[k].run),
                               fetches[k].run),
                     Advance(hookState.data.arcgisManifest, runs, fetches[k].run),
                     selectedProcessedLayers, processedLayerData')
    /\ UNCHANGED processedLayerError

\* fetch k fails in a run that was not cancelled
ProcessedFailed(k, message) ==
    /\ processedLayerError' = FailedToLoad(fetches[k].name, message)
    /\ runs' = Advance(hookState.data.arcgisManifest, runs, fetches[k].run)
    /\ fetches' = WithFetch(Settle(fetches, k, "failed"), runs', fetches[k].run)
    /\ UNCHANGED processedLayerData

\* fetch k settles in a cancelled run: nothing is set, the loop goes on
ProcessedDiscarded(k) ==
    /\ runs' = Advance(hookState.data.arcgisManifest, runs, fetches[k].run)
    /\ fetches' = WithFetch(Settle(fetches, k, "discarded"), runs', fetches[k].run)
    /\ UNCHANGED <<processedLayerData, processedLayerError>>

\* the continuation of loadSelected after `await fetch(...)`
ProcessedDone(k) ==
    /\ fetches[k].status = "pending"
    /\ \E response \in LayerResponses(k) :
          IF runs[fetches[k].run].cancelled THEN ProcessedDiscarded(k)
          ELSE IF layerPayload(response).ok
               THEN ProcessedMerged(k, layerPayload(response).value)
               ELSE ProcessedFailed(k, layerPayload(response).message)
    /\ UNCHANGED <<viewVars, loadVars, hookVars, callVars, selectedProcessedLayers,
                   arcgisVars, kmzVars, geocodeVars>>

TypeArcgisUrl(url) ==
    /\ mounted /\ url # arcgisUrl
    /\ Starts < MaxStarts
    /\ arcgisUrl' = url
    /\ UNCHANGED <<viewVars, loadVars, hookVars, callVars, lazyVars, temporaryArcgis,
                   arcgisName,
                   arcgisWhere, arcgisError, addingArcgis, arcgisCalls,
                   kmzVars, geocodeVars>>

\* the values of the form a call of handleArcgisAdd closes over
ArcgisForm == [url |-> arcgisUrl, where |-> arcgisWhere, name |-> arcgisName]

\* handleArcgisAdd up to its await; the button is disabled while addingArcgis
ArcgisAdd ==
    /\ mounted /\ ~addingArcgis
    /\ Starts < MaxStarts
    /\ IF Len(Trim(arcgisUrl)) = 0
       THEN /\ arcgisError' = Message("Provide an ArcGIS FeatureServer URL.")
            /\ arcgisCalls' = Append(arcgisCalls, Refused(ArcgisForm))
            /\ UNCHANGED addingArcgis
       ELSE /\ arcgisError' = Null
            /\ addingArcgis' = TRUE
            /\ arcgisCalls' = Append(arcgisCalls, Call(ArcgisForm))
    /\ UNCHANGED <<viewVars, loadVars, hookVars, callVars, lazyVars, temporaryArcgis,
                   arcgisName,
                   arcgisUrl, arcgisWhere, kmzVars, geocodeVars>>

\* handleArcgisAdd after `await fetchArcgisGeojson(...)`
ArcgisDone(k) ==
    /\ arcgisCalls[k].status = "pending"
    /\ \E response \in ArcgisResponses(k) :
          IF fetchArcgisGeojson(response).ok
          THEN /\ temporaryArcgis' =
                     AppendLayer(temporaryArcgis,
                                 Layer(arcgisLayerName(arcgisCalls[k].input.name),
                                       fetchArcgisGeojson(response).value))
               /\ arcgisName' = <<>>
               /\ arcgisUrl' = <<>>
               /\ arcgisWhere' = DefaultWhere
               /\ arcgisCalls' = Settle(arcgisCalls, k, "ok")
               /\ UNCHANGED arcgisError
          ELSE /\ arcgisError' = Str(fetchArcgisGeojson(response).message)
               /\ arcgisCalls' = Settle(arcgisCalls, k, "failed")
               /\ UNCHANGED <<temporaryArcgis, arcgisName, arcgisUrl, arcgisWhere>>
    /\ addingArcgis' = FALSE
    /\ UNCHANGED <<viewVars, loadVars, hookVars, callVars, lazyVars, kmzVars, geocodeVars>>

\* handleKmzUpload up to its await; a file of another type is refused before
\* anything is awaited on
KmzUpload(file) ==
    /\ mounted
    /\ Starts < MaxStarts
    /\ IF AwaitsFile(file)
       THEN /\ kmzLoading' = TRUE
            /\ kmzError' = Null
            /\ uploads' = Append(uploads, Call(file))
       ELSE /\ kmzLoading' = FALSE
            /\ kmzError' = Str(loadKmzLayer(file).message)
            /\ uploads' = Append(uploads, Refused(file))
    /\ UNCHANGED <<viewVars, loadVars, hookVars, callVars, lazyVars, arcgisVars, kmzLayers,
                   geocodeVars>>

\* handleKmzUpload after `await loadKmzLayer(file)`
KmzDone(k) ==
    /\ uploads[k].status = "pending"
    /\ IF loadKmzLayer(uploads[k].input).ok
       THEN /\ kmzLayers' = AppendLayer(kmzLayers,
                                        Layer(kmzLayerName(uploads[k].input.name),
                                              loadKmzLayer(uploads[k].input).value))
            /\ uploads' = Settle(uploads, k, "ok")
            /\ UNCHANGED kmzError
       ELSE /\ kmzError' = Str(loadKmzLayer(uploads[k].input).message)
            /\ uploads' = Settle(uploads, k, "failed")
            /\ UNCHANGED kmzLayers
    /\ kmzLoading' = FALSE
    /\ UNCHANGED <<viewVars, loadVars, hookVars, callVars, lazyVars, arcgisVars, geocodeVars>>

TypeAddress(query) ==
    /\ mounted /\ query # addressQuery
    /\ Starts < MaxStarts
    /\ addressQuery' = query
    /\ UNCHANGED <<viewVars, loadVars, hookVars, callVars, lazyVars, arcgisVars, kmzVars,
                   addressPin, geocodeStatus, searches>>

\* handleGeocode up to its await
Geocode ==
    /\ mounted
    /\ Starts < MaxStarts
    /\ IF Len(Trim(addressQuery)) = 0
       THEN /\ geocodeStatus' = Message("Enter an address to search.")
            /\ searches' = Append(searches, Refused(Trim(addressQuery)))
       ELSE /\ geocodeStatus' = Message("Searching...")
            /\ searches' = Append(searches, Call(Trim(addressQuery)))
    /\ UNCHANGED <<viewVars, loadVars, hookVars, callVars, lazyVars, arcgisVars, kmzVars,
                   addressQuery, addressPin>>

\* handleGeocode after `await fetch(...)`
GeocodeDone(k) ==
    /\ searches[k].status = "pending"
    /\ \E response \in GeocodeResponses :
          /\ addressPin' = geocodeOutcome(addressPin, response)[1]
          /\ geocodeStatus' = geocodeOutcome(addressPin, response)[2]
    /\ searches' = Settle(searches, k, "done")
    /\ UNCHANGED <<viewVars, loadVars, hookVars, callVars, lazyVars, arcgisVars, kmzVars,
                   addressQuery>>

\* the Clear button
ClearAddress ==
    /\ mounted
    /\ addressPin # Null \/ geocodeStatus # Null
    /\ addressPin' = Null
    /\ geocodeStatus' = Null
    /\ UNCHANGED <<viewVars, loadVars, hookVars, callVars, lazyVars, arcgisVars, kmzVars,
                   addressQuery, searches>>

\* the App is torn down: the cleanups of the effects of useMapData and of the
\* lazy loader run
Unmount ==
    /\ mounted
    /\ mounted' = FALSE
    /\ hookCancelled' = TRUE
    /\ runs' = CancelAll(runs)
    /\ UNCHANGED <<viewVars, loadVars, hookState, hookPc, callVars, selectedProcessedLayers,
                   processedLayerData, processedLayerError, fetches, arcgisVars, kmzVars,
                   geocodeVars>>

NextApp ==
    \/ \E selected \in Selections(hookState.data.arcgisManifest) : SelectLayers(selected)
    \/ \E k \in DOMAIN fetches : ProcessedDone(k)
    \/ \E url \in ArcgisUrls : TypeArcgisUrl(url)
    \/ ArcgisAdd
    \/ \E k \in DOMAIN arcgisCalls : ArcgisDone(k)
    \/ \E file \in Files : KmzUpload(file)
    \/ \E k \in DOMAIN uploads : KmzDone(k)
    \/ \E query \in AddressQueries : TypeAddress(query)
    \/ Geocode
    \/ \E k \in DOMAIN searches : GeocodeDone(k)
    \/ ClearAddress
    \/ Unmount

SpecApp == InitApp /\ [][NextApp]_vars

\* the lazy loader alone, with every fetch it starts settling in the end
NextLazy ==
    \/ \E selected \in Selections(hookState.data.arcgisManifest) : SelectLayers(selected)
    \/ \E k \in DOMAIN fetches : ProcessedDone(k)
    \/ Unmount

SpecLazy ==
    /\ InitApp
    /\ [][NextLazy]_vars
    /\ WF_vars(\E k \in DOMAIN fetches : ProcessedDone(k))

-----------------------------------------------------------------------------
(* SpecTransit: groupTransitLayers applied to every bounded feed *)

InitTransit ==
    /\ LoadIdle /\ HookIdle /\ AppIdle
    /\ callArg \in TransitFeeds
    /\ callRet = Undefined
    /\ callInput = Undefined
    /\ callPc = "ready"

CallGroupTransitLayers ==
    /\ callPc = "ready"
    /\ callRet' = groupTransitLayers(callArg)
    /\ callPc' = "returned"
    /\ UNCHANGED <<callArg, callInput, loadVars, hookVars, appVars>>

NextTransit == CallGroupTransitLayers

SpecTransit == InitTransit /\ [][NextTransit]_vars

\* a non-empty feed none of whose features has one of the three route-type keys
NoRouteTypeKey(data) ==
    /\ ~NoFeatures(data)
    /\ \A i \in 1..Len(data.features) :
         \A j \in 1..Len(RouteTypeKeys) :
            ~HasKey(data.features[i].properties, RouteTypeKeys[j])

\* C10: a non-empty feed with no route-type key on any feature yields exactly
\* the fallback group `all`, holding every original feature in original order,
\* and no train, bus or other key.
C10_FallbackAll ==
    (callPc = "returned" /\ NoRouteTypeKey(callArg))
        => /\ DOMAIN callRet = {"all"}
           /\ callRet["all"].features = callArg.features

\* the first value that is neither null nor undefined among props[key] for the
\* keys in order, undefined when there is none
RECURSIVE FirstNonNull(_, _)
FirstNonNull(props, keys) ==
    IF Len(keys) = 0 THEN Undefined
    ELSE IF ~Nullish(Get(props, Head(keys))) THEN Get(props, Head(keys))
    ELSE FirstNonNull(props, Tail(keys))

\* the group the rule of classification gives a feature
ExpectedGroup(feature) ==
    LET value == FirstNonNull(PropsOf(feature), RouteTypeKeys)
        token == IF Nullish(value) THEN <<>> ELSE ToLowerCase(Trim(ToText(value)))
    IN  IF token = tTrain THEN "train"
        ELSE IF token \in BusTokens THEN "bus"
        ELSE "other"

\* the features of a feed the rule puts in group k, in original order
ExpectedMembers(data, k) == SelectSeq(data.features, LAMBDA f : ExpectedGroup(f) = k)

\* C11: for a non-empty feed, each feature is classified by the first non-null
\* value among ROUTETYPE, RouteType, route_type, trimmed and lower-cased; the
\* result has the key train, bus or other exactly when that group is
\* non-empty, each group lists its features in original order, and every
\* feature is in exactly one group.
C11_Classified ==
    (callPc = "returned" /\ ~NoFeatures(callArg)) =>
        /\ DOMAIN callRet \subseteq {"train", "bus", "other"}
        /\ \A k \in {"train", "bus", "other"} :
              /\ (k \in DOMAIN callRet) <=> (Len(ExpectedMembers(callArg, k)) > 0)
              /\ k \in DOMAIN callRet =>
                    callRet[k].features = ExpectedMembers(callArg, k)
        /\ \A i \in 1..Len(callArg.features) :
              Cardinality({k \in DOMAIN callRet :
                             \E j \in 1..Len(callRet[k].features) :
                                callRet[k].features[j] = callArg.features[i]}) = 1

\* a feed of three features that fills the three groups, the bus feature being
\* decided by its third key after a null first key or by a padded value
C11_Witness ==
    /\ callPc = "returned" /\ ~NoFeatures(callArg)
    /\ DOMAIN callRet = {"train", "bus", "other"}
    /\ \E i \in 1..Len(callArg.features) :
          /\ ExpectedGroup(callArg.features[i]) = "bus"
          /\ Nullish(Get(PropsOf(callArg.features[i]), kROUTETYPE))

-----------------------------------------------------------------------------
(* SpecCatchments: summarizeCatchments applied to every bounded feed *)

\* catchment features as the feed may carry them
CatchmentFeedTemplates ==
    { Null,
      EmptyObj,
      Obj(<< <<kCatchment_level, Str(tPrimary)>> >>),
      Obj(<< <<kCatchment_level, Str(tHigh)>> >>),
      Obj(<< <<kCatchment_level, Str(tOther)>> >>),
      Obj(<< <<kCatchment_level, Str(<<"P","r","i","m","a","r","y">>)>> >>),
      Obj(<< <<kCatchment_level, Null>> >>) }

CatchmentFeeds ==
    {Null} \cup {Collection(Numbered(q)) : q \in SeqsUpTo(CatchmentFeedTemplates, MaxFeed)}

InitCatchments ==
    /\ LoadIdle /\ HookIdle /\ AppIdle
    /\ callArg \in CatchmentFeeds
    /\ callRet = Undefined
    /\ callInput = Undefined
    /\ callPc = "ready"

CallSummarizeCatchments ==
    /\ callPc = "ready"
    /\ callRet' = summarizeCatchments(callArg)
    /\ callPc' = "returned"
    /\ UNCHANGED <<callArg, callInput, loadVars, hookVars, appVars>>

NextCatchments == CallSummarizeCatchments

SpecCatchments == InitCatchments /\ [][NextCatchments]_vars

\* the features of a feed whose catchment_level is the string `level`
AtLevel(data, level) ==
    {i \in 1..Len(data.features) :
        Get(PropsOf(data.features[i]), kCatchment_level) = Str(level)}

\* C12: the layer mapping has a key L of primary, high, other exactly when a
\* feature has catchment_level L, a key never holds a collection without
\* features, and a null or empty feed gives the empty mapping and a warning.
C12_KeysOfPresentLevels ==
    callPc = "returned" =>
        IF NoFeatures(callArg)
        THEN /\ DOMAIN callRet.layers = {}
             /\ callRet.warning.t = "str" /\ Len(callRet.warning.v) > 0
        ELSE /\ DOMAIN callRet.layers \subseteq Range(CatchmentLevels)
             /\ \A level \in Range(CatchmentLevels) :
                   (level \in DOMAIN callRet.layers) <=> (AtLevel(callArg, level) # {})
             /\ \A level \in DOMAIN callRet.layers :
                   Len(callRet.layers[level].features) > 0

\* a feed of primary features and one of no known level: only the key primary
C12_Witness ==
    /\ callPc = "returned" /\ ~NoFeatures(callArg)
    /\ Len(callArg.features) = MaxFeed
    /\ DOMAIN callRet.layers = {tPrimary}
    /\ Cardinality(AtLevel(callArg, tPrimary)) = MaxFeed - 1

\* the number of features the summary counts at a level
LevelCount(summary, level) ==
    IF level \in DOMAIN summary.levels THEN summary.levels[level] ELSE 0

\* C13: every feature of a non-empty feed is in exactly one of the
\* sub-collections primary, high, other, whatever its catchment_level, so the
\* counts per level add up to the count of the summary.
C13_Partition ==
    (callPc = "returned" /\ ~NoFeatures(callArg)) =>
        /\ \A i \in 1..Len(callArg.features) :
              Cardinality({level \in DOMAIN callRet.layers :
                             \E j \in 1..Len(callRet.layers[level].features) :
                                callRet.layers[level].features[j] = callArg.features[i]})
                 = 1
        /\ LevelCount(callRet.summary, tPrimary) + LevelCount(callRet.summary, tHigh)
              + LevelCount(callRet.summary, tOther) = callRet.summary.count

-----------------------------------------------------------------------------
(* SpecBounds: computeBounds applied to every bounded collection *)

\* geometries as a GeoJSON file may carry them: every type of flattenCoords,
\* positions whose longitude or latitude is not a finite number, a nested
\* GeometryCollection and a type flattenCoords does not know
BoundsGeometries ==
    << Null,
       Point(1, 2),
       Geometry("Point", <<NaN, Num(9)>>),
       Geometry("Point", <<Num(7)>>),
       Geometry("LineString", << <<Num(0), Num(5)>>, <<Num(3), Null>> >>),
       Geometry("Polygon", << << <<Num(-2), Num(1)>>, <<Num(2), Num(4)>> >> >>),
       Geometry("MultiPolygon", << << << <<Num(4), Num(-3)>> >> >> >>),
       GeometryCollection(<<
           Null,
           GeometryCollection(<< Point(-5, 6) >>),
           Geometry("MultiPoint", << <<Num(6), Num(0)>> >>),
           Geometry("MultiLineString", << << <<Null, Num(-9)>> >> >>) >>),
       Geometry("Circle", <<Num(8), Num(8)>>) >>

BoundsFeed(q) ==
    Collection([i \in 1..Len(q) |-> GeoFeature(i, Null, BoundsGeometries[q[i]])])

InitBounds ==
    /\ LoadIdle /\ HookIdle /\ AppIdle
    /\ \E q \in SeqsUpTo(1..Len(BoundsGeometries), MaxFeed) : callArg = BoundsFeed(q)
    /\ callRet = Undefined
    /\ callInput = Undefined
    /\ callPc = "ready"

\* computeBounds(collection): the argument is not an array, so the features
\* are collection.features
CallComputeBounds ==
    /\ callPc = "ready"
    /\ callRet' = computeBounds(callArg.features)
    /\ callPc' = "returned"
    /\ UNCHANGED <<callArg, callInput, loadVars, hookVars, appVars>>

NextBounds == CallComputeBounds

SpecBounds == InitBounds /\ [][NextBounds]_vars

\* the positions of a geometry, by the GeoJSON nesting depth of its type
RECURSIVE PositionsOf(_)
PositionsOf(g) ==
    IF g.t # "obj" THEN {}
    ELSE IF g.type = "GeometryCollection"
         THEN UNION {PositionsOf(g.geometries[i]) : i \in 1..Len(g.geometries)}
    ELSE IF g.type = "Point" THEN {g.coordinates}
    ELSE IF g.type \in {"MultiPoint", "LineString"} THEN Range(g.coordinates)
    ELSE IF g.type \in {"MultiLineString", "Polygon"}
         THEN UNION {Range(g.coordinates[i]) : i \in 1..Len(g.coordinates)}
    ELSE IF g.type = "MultiPolygon"
         THEN UNION {UNION {Range(g.coordinates[i][j]) : j \in 1..Len(g.coordinates[i])} :
                        i \in 1..Len(g.coordinates)}
    ELSE {}

\* the positions of a collection whose longitude and latitude are both finite
FinitePairs(data) ==
    {p \in UNION {PositionsOf(data.features[i].geometry) : i \in 1..Len(data.features)} :
        Len(p) >= 2 /\ p[1].t = "num" /\ p[2].t = "num"}

\* C14: computeBounds returns null exactly when the collection has no position
\* with both components finite, and otherwise the least and greatest longitude
\* and latitude over exactly those positions, in every geometry type and in
\* nested GeometryCollections; one finite position gives min = max.
C14_Envelope ==
    callPc = "returned" =>
        LET pairs == FinitePairs(callArg)
        IN  /\ (callRet = Null) <=> (pairs = {})
            /\ pairs # {} =>
                 /\ callRet = Bounds(Min({p[1].v : p \in pairs}), Min({p[2].v : p \in pairs}),
                                     Max({p[1].v : p \in pairs}), Max({p[2].v : p \in pairs}))
                 /\ Cardinality(pairs) = 1 =>
                       (callRet.v[1] = callRet.v[3] /\ callRet.v[2] = callRet.v[4])

\* the nested collection beside a point without a finite longitude: the
\* envelope comes from the members of the nested collection alone
C14_Witness ==
    /\ callPc = "returned"
    /\ \E i \in 1..Len(callArg.features) :
          callArg.features[i].geometry = BoundsGeometries[3]
    /\ \E i \in 1..Len(callArg.features) :
          callArg.features[i].geometry = BoundsGeometries[8]
    /\ callRet = Bounds(-5, 0, 6, 6)

-----------------------------------------------------------------------------
(* SpecMetadata: buildMetadata called twice on every bounded collection *)

tWA == <<"W","A">>
tNT == <<"N","T">>
tPerth == <<"P","e","r","t","h">>
tAlbany == <<"A","l","b","a","n","y">>
tDarwin == <<"D","a","r","w","i","n">>

\* SA1 features: with and without a state, a sub-region, a decile and a
\* geometry.  The coordinates are in units of 10^-7 degrees.
MetadataTemplates ==
    << [properties |-> Null, geometry |-> Null],
       [properties |-> Obj(<< <<kSTE_NAME21, Str(tWA)>>, <<kSA2_NAME21, Str(tPerth)>>,
                              <<kIRAD_decile, Num(5)>> >>),
        geometry |-> Point(1151, -320)],
       [properties |-> Obj(<< <<kSTE_NAME21, Str(tWA)>>, <<kSA2_NAME21, Str(tAlbany)>>,
                              <<kIRAD_decile, Num(2)>> >>),
        geometry |-> Point(1178, -347)],
       [properties |-> Obj(<< <<kSTE_NAME21, Str(tNT)>>, <<kSA2_NAME21, Str(tDarwin)>>,
                              <<kIRAD_decile, Null>> >>),
        geometry |-> Null],
       [properties |-> Obj(<< <<kSTE_NAME21, Str(tWA)>>, <<kIRAD_decile, Str(<<>>)>> >>),
        geometry |-> Null],
       [properties |-> Obj(<< <<kSA2_NAME21, Str(tPerth)>>,
                              <<kIRAD_decile, Str(<<"n","a">>)>> >>),
        geometry |-> Point(9, 9)],
       [properties |-> Obj(<< <<kSTE_NAME21, Str(<<>>)>>, <<kSA2_NAME21, Str(tDarwin)>>,
                              <<kIRAD_decile, Num(9)>> >>),
        geometry |-> Point(1300, -123)],
       [properties |-> Obj(<< <<kSTE_NAME21, Str(tNT)>>, <<kSA2_NAME21, Str(tAlbany)>>,
                              <<kIRSD_score, Num(3)>> >>),
        geometry |-> Geometry("Point", <<NaN, Num(-124)>>)] >>

MetadataFeed(q) ==
    Collection([i \in 1..Len(q) |->
        GeoFeature(i, MetadataTemplates[q[i]].properties, MetadataTemplates[q[i]].geometry)])

\* a variant in which the call gives every feature without properties an
\* empty properties object
buildMetadataInputDefaulted(data) ==
    Collection([i \in 1..Len(data.features) |->
        [data.features[i] EXCEPT !.properties = PropsOf(data.features[i])]])

\* data as a call of buildMetadata leaves it: the function assigns to no field
\* of data, of a feature or of its properties
buildMetadataInput(data) == data

InitMetadata ==
    /\ LoadIdle /\ HookIdle /\ AppIdle
    /\ \E q \in SeqsUpTo(1..Len(MetadataTemplates), MaxFeed) : callArg = MetadataFeed(q)
    /\ callRet = Undefined
    /\ callInput = Undefined
    /\ callPc = "ready"

CallBuildMetadata ==
    /\ callPc = "ready"
    /\ callRet' = buildMetadata(callArg)
    /\ callArg' = buildMetadataInput(callArg)
    /\ callPc' = "returned"
    /\ UNCHANGED <<callInput, loadVars, hookVars, appVars>>

\* a second invocation, on the collection as the first one left it
CallBuildMetadataAgain ==
    /\ callPc = "returned"
    /\ callRet' = buildMetadata(callArg)
    /\ callArg' = buildMetadataInput(callArg)
    /\ callPc' = "again"
    /\ UNCHANGED <<callInput, loadVars, hookVars, appVars>>

NextMetadata == CallBuildMetadata \/ CallBuildMetadataAgain

SpecMetadata == InitMetadata /\ [][NextMetadata]_vars

-----------------------------------------------------------------------------
(* The grouping of buildMetadata (SpecMetadata) *)

\* a property value that is a non-empty string
IsName(value) == value.t = "str" /\ Len(value.v) > 0

StateOf(feature) == Get(PropsOf(feature), kSTE_NAME21)
Sa2Of(feature) == Get(PropsOf(feature), kSA2_NAME21)

\* the state names of a collection, and the sub-region names of a state
StateNames(data) ==
    {StateOf(data.features[i]).v :
        i \in {j \in 1..Len(data.features) : IsName(StateOf(data.features[j]))}}
Sa2Names(data, state) ==
    {Sa2Of(data.features[i]).v :
        i \in {j \in 1..Len(data.features) :
                  /\ StateOf(data.features[j]) = Str(state)
                  /\ IsName(Sa2Of(data.features[j]))}}

Ascending(seq) == \A i, j \in 1..Len(seq) : i < j => TextLess(seq[i], seq[j])

\* the collection with its features in the order p
Reordered(data, p) == Collection([i \in 1..Len(data.features) |-> data.features[p[i]]])

-----------------------------------------------------------------------------
(* The range of deciles of buildMetadata (SpecMetadata) *)

\* the IRAD_decile values of a collection that are finite numbers
FiniteDeciles(data) ==
    {Get(PropsOf(data.features[i]), kIRAD_decile).v :
        i \in {j \in 1..Len(data.features) :
                  Get(PropsOf(data.features[j]), kIRAD_decile).t = "num"}}

\* C17: iradRange is [min, max] over exactly the finite numeric IRAD_decile
\* values; a missing, null, empty or non-numeric value is left out and never
\* counted as zero; iradRange is null when no feature has a finite value.
C17_FiniteDecilesOnly ==
    callPc = "returned" =>
        callRet.iradRange =
            IF FiniteDeciles(callArg) = {} THEN Null
            ELSE [t |-> "arr", v |-> <<Min(FiniteDeciles(callArg)), Max(FiniteDeciles(callArg))>>]

-----------------------------------------------------------------------------
(* The bounds and centres of buildMetadata (SpecMetadata) *)

\* the features of a collection whose STE_NAME21 is the string `state`
OfState(data, state) == SelectSeq(data.features, LAMBDA f : StateOf(f) = Str(state))

\* c is a number of six decimals nearest to twice / 2 (units of 10^-7)
IsRoundedHalf(c, twice) ==
    /\ c % 10 = 0
    /\ 2 * c - twice \in -10..10

\* C18: totalBounds is computeBounds of the whole collection; a state of
\* `states` has a centre exactly when computeBounds of its features is not
\* null, the centre being [(minLat + maxLat) / 2, (minLon + maxLon) / 2] of
\* those bounds rounded to six decimals; no other key has a centre.
C18_CentresFromBounds ==
    callPc = "returned" =>
        /\ callRet.totalBounds = computeBounds(callArg.features)
        /\ DOMAIN callRet.stateCenters \subseteq Range(callRet.states)
        /\ \A state \in Range(callRet.states) :
              LET bounds == computeBounds(OfState(callArg, state))
              IN  /\ (state \in DOMAIN callRet.stateCenters) <=> (bounds # Null)
                  /\ bounds # Null =>
                        /\ IsRoundedHalf(callRet.stateCenters[state][1],
                                         bounds.v[2] + bounds.v[4])
                        /\ IsRoundedHalf(callRet.stateCenters[state][2],
                                         bounds.v[1] + bounds.v[3])

\* two states, one without a finite position: only the other has a centre,
\* the rounded middle of the envelope of its two points
C18_Witness ==
    /\ callPc = "returned"
    /\ callRet.states = <<tNT, tWA>>
    /\ DOMAIN callRet.stateCenters = {tWA}
    /\ callRet.totalBounds = Bounds(1151, -347, 1178, -320)
    /\ callRet.stateCenters[tWA] = <<-330, 1160>>

-----------------------------------------------------------------------------
(* SpecStage: computeStage applied to every pair of year codes *)

\* year codes: absent, null, the markers and years of two digits, in upper and
\* in lower case
YearCodes ==
    { Undefined, Null,
      Str(<<"K","I","N">>), Str(<<"P","P">>), Str(<<"P">>),
      Str(<<"k","i","n">>), Str(<<"p","p">>), Str(<<"P","p">>),
      Str(<<"Y","0","0">>), Str(<<"Y","0","1">>), Str(<<"Y","0","6">>),
      Str(<<"Y","0","7">>), Str(<<"Y","1","0">>), Str(<<"Y","1","2">>),
      Str(<<"y","0","6">>), Str(<<"y","1","0">>) }

InitStage ==
    /\ LoadIdle /\ HookIdle /\ AppIdle
    /\ callArg \in [lowYear : YearCodes, highYear : YearCodes]
    /\ callRet = Undefined
    /\ callInput = Undefined
    /\ callPc = "ready"

CallComputeStage ==
    /\ callPc = "ready"
    /\ callRet' = Str(computeStage(callArg.lowYear, callArg.highYear))
    /\ callPc' = "returned"
    /\ UNCHANGED <<callArg, callInput, loadVars, hookVars, appVars>>

NextStage == CallComputeStage

SpecStage == InitStage /\ [][NextStage]_vars

\* what a year code says, read off its characters
IsMarkerCode(code) ==
    code.t = "str" /\ ToUpperCase(code.v) \in { <<"K","I","N">>, <<"P","P">>, <<"P">> }
IsYearCode(code) ==
    code.t = "str" /\ Len(code.v) = 3 /\ code.v[1] \in {"Y", "y"}
        /\ IsDigit(code.v[2]) /\ IsDigit(code.v[3])
YearOf(code) == 10 * DigitValue(code.v[2]) + DigitValue(code.v[3])
SaysPrimary(code) == IsMarkerCode(code) \/ (IsYearCode(code) /\ YearOf(code) <= 6)
SaysSecondary(code) == IsYearCode(code) /\ YearOf(code) >= 7

PP == Str(<<"P","P">>)
Y06 == Str(<<"Y","0","6">>)
Y07 == Str(<<"Y","0","7">>)
Y12 == Str(<<"Y","1","2">>)

\* C19: computeStage is combined iff a bound is a marker or a year <= 6 and a
\* bound is a year >= 7, primary iff only the first, secondary iff only the
\* second, other iff neither; (PP, Y06) is primary, (Y07, Y12) secondary,
\* (PP, Y12) combined, (null, null) other; swapping the bounds changes nothing.
C19_StageRule ==
    callPc = "returned" =>
        LET primary == SaysPrimary(callArg.lowYear) \/ SaysPrimary(callArg.highYear)
            secondary == SaysSecondary(callArg.lowYear) \/ SaysSecondary(callArg.highYear)
        IN  /\ (callRet = Str(tCombined)) <=> (primary /\ secondary)
            /\ (callRet = Str(tPrimary)) <=> (primary /\ ~secondary)
            /\ (callRet = Str(tSecondary)) <=> (~primary /\ secondary)
            /\ (callRet = Str(tOther)) <=> (~primary /\ ~secondary)
            /\ callArg = [lowYear |-> PP, highYear |-> Y06] => callRet = Str(tPrimary)
            /\ callArg = [lowYear |-> Y07, highYear |-> Y12] => callRet = Str(tSecondary)
            /\ callArg = [lowYear |-> PP, highYear |-> Y12] => callRet = Str(tCombined)
            /\ callArg = [lowYear |-> Null, highYear |-> Null] => callRet = Str(tOther)
            /\ callRet = Str(computeStage(callArg.highYear, callArg.lowYear))

\* a marker and a year in lower case, the year first: combined
C19_Witness ==
    /\ callPc = "returned"
    /\ callArg = [lowYear |-> Str(<<"y","1","0">>), highYear |-> Str(<<"p","p">>)]
    /\ callRet = Str(tCombined)

-----------------------------------------------------------------------------
(* SpecSchools: ensureSchoolStages applied twice to every bounded feed *)

\* school features: without properties, without a stage, with a stage that
\* differs from the computed one, with an empty and with a null stage
StageTemplates ==
    << Null,
       Obj(<< <<kLowyear, PP>>, <<kHighyear, Y06>> >>),
       Obj(<< <<kStage, Str(tSecondary)>>, <<kLowyear, PP>>, <<kHighyear, Y06>> >>),
       Obj(<< <<kStage, Str(<<>>)>>, <<kLowyear, Y07>>, <<kHighyear, Y12>> >>),
       Obj(<< <<kLowyear, Null>>, <<kHighyear, Str(<<"y","1","2">>)>>,
              <<kSector, Str(<<"G","o","v">>)>> >>),
       Obj(<< <<kSector, Str(<<"G","o","v">>)>>, <<kStage, Str(<<"S","e","n","i","o","r">>)>> >>),
       Obj(<< <<kStage, Null>>, <<kLowyear, PP>>, <<kHighyear, Y12>> >>) >>

SchoolFeed(q) == Collection([i \in 1..Len(q) |-> Feature(i, StageTemplates[q[i]])])

InitSchools ==
    /\ LoadIdle /\ HookIdle /\ AppIdle
    /\ \E q \in SeqsUpTo(1..Len(StageTemplates), MaxFeed) : callArg = SchoolFeed(q)
    /\ callRet = Undefined
    /\ callInput = callArg
    /\ callPc = "ready"

\* callArg keeps the collection as it was passed, callInput is the object
\* itself: the call writes to its features
CallEnsureSchoolStages ==
    /\ callPc = "ready"
    /\ callRet' = ensureSchoolStages(callInput)
    /\ callInput' = ensureSchoolStagesInput(callInput)
    /\ callPc' = "returned"
    /\ UNCHANGED <<callArg, loadVars, hookVars, appVars>>

\* a second application, to the collection the first one returned; its
\* features are the objects of callInput
CallEnsureSchoolStagesAgain ==
    /\ callPc = "returned"
    /\ callRet' = ensureSchoolStages(callRet)
    /\ callInput' = ensureSchoolStagesInput(callInput)
    /\ callPc' = "again"
    /\ UNCHANGED <<callArg, loadVars, hookVars, appVars>>

NextSchools == CallEnsureSchoolStages \/ CallEnsureSchoolStagesAgain

SpecSchools == InitSchools /\ [][NextSchools]_vars

\* a feature carries a stage: its properties hold a non-empty stage
CarriesStage(feature) == IsName(Get(PropsOf(feature), kStage))

KeysOf(o) == IF o.t = "obj" THEN DOMAIN o.m ELSE {}

\* `after` is `before` with the stage it had, or with the computed one
StagedFrom(before, after) ==
    /\ after.id = before.id /\ after.geometry = before.geometry
    /\ IF CarriesStage(before)
       THEN after.properties = before.properties
       ELSE /\ KeysOf(after.properties) = KeysOf(before.properties) \cup {kStage}
            /\ \A k \in KeysOf(before.properties) \ {kStage} :
                  Get(after.properties, k) = Get(before.properties, k)
            /\ Get(after.properties, kStage) =
                  Str(computeStage(Get(PropsOf(before), kLowyear),
                                   Get(PropsOf(before), kHighyear)))

\* C20: ensureSchoolStages returns the features of the collection in their
\* order, none dropped and none added; a feature that carried a stage keeps it,
\* a feature that lacked one gets computeStage(lowyear, highyear); a second
\* application returns what the first returned.
C20_StagesEnsured ==
    /\ callPc \in {"returned", "again"} =>
          /\ Len(callRet.features) = Len(callArg.features)
          /\ \A i \in 1..Len(callArg.features) :
                StagedFrom(callArg.features[i], callRet.features[i])
    /\ callPc = "again" => callRet = ensureSchoolStages(callArg)

\* the second application has returned: a feature whose stage differs from
\* the computed one kept it, and one without properties is staged other
C20_Witness ==
    /\ callPc = "again"
    /\ \E i \in 1..Len(callArg.features) :
          /\ callArg.features[i].properties = StageTemplates[3]
          /\ Get(callRet.features[i].properties, kStage) = Str(tSecondary)
    /\ \E i \in 1..Len(callArg.features) :
          /\ callArg.features[i].properties = Null
          /\ Get(callRet.features[i].properties, kStage) = Str(tOther)

-----------------------------------------------------------------------------
(* The argument of ensureSchoolStages (SpecSchools) *)

\* C21: ensureSchoolStages does not write to its input: after the call the
\* collection passed and the properties of each of its features are as they
\* were before it.
C21_InputUnchanged ==
    callPc \in {"returned", "again"} => callInput = callArg

-----------------------------------------------------------------------------
(* SpecSummary: summarizeSchools applied to every bounded feed *)

tGov == <<"G","o","v">>

\* school features: sectors and remote areas with and without blanks around
\* them, empty and missing; stages in either case, unknown, missing, and the
\* two names a lower-case stage shares with Object.prototype
SummaryTemplates ==
    << Null,
       Obj(<< <<kSector, Str(tGov)>>, <<kRemotearea, Str(<<>>)>>,
              <<kStage, Str(tPrimary)>> >>),
       Obj(<< <<kSector, Str(<<" ">> \o tGov \o <<" ">>)>>,
              <<kRemotearea, Str(<<"C","i","t","y">>)>>,
              <<kStage, Str(<<"S","e","c","o","n","d","a","r","y">>)>> >>),
       Obj(<< <<kSector, Str(<<" ">>)>>, <<kRemotearea, Str(<<"C","i","t","y"," ">>)>>,
              <<kStage, Str(tCombined)>> >>),
       Obj(<< <<kSector, Str(<<"N","o","n">>)>>, <<kStage, Str(<<"s","e","n","i","o","r">>)>> >>),
       Obj(<< <<kSector, Null>>, <<kStage, Str(tConstructor)>> >>),
       Obj(<< <<kRemotearea, Null>>, <<kStage, Str(tProto)>> >>) >>

SummaryFeed(q) == Collection([i \in 1..Len(q) |-> Feature(i, SummaryTemplates[q[i]])])

InitSummary ==
    /\ LoadIdle /\ HookIdle /\ AppIdle
    /\ \E q \in SeqsUpTo(1..Len(SummaryTemplates), MaxFeed) : callArg = SummaryFeed(q)
    /\ callRet = Undefined
    /\ callInput = Undefined
    /\ callPc = "ready"

CallSummarizeSchools ==
    /\ callPc = "ready"
    /\ callRet' = summarizeSchools(callArg)
    /\ callPc' = "returned"
    /\ UNCHANGED <<callArg, callInput, loadVars, hookVars, appVars>>

NextSummary == CallSummarizeSchools

SpecSummary == InitSummary /\ [][NextSummary]_vars

\* the trimmed value of a string property, <<>> when it is missing or blank
Trimmed(feature, key) ==
    LET value == Get(PropsOf(feature), key)
    IN  IF value.t = "str" THEN Trim(value.v) ELSE <<>>

\* the histogram of a property: non-blank trimmed value -> number of features
Counted(data, key) ==
    [k \in {Trimmed(data.features[i], key) : i \in 1..Len(data.features)} \ {<<>>} |->
        Cardinality({i \in 1..Len(data.features) : Trimmed(data.features[i], key) = k})]

\* the stage a feature is to be counted under
StageBucket(feature) ==
    LET value == Get(PropsOf(feature), kStage)
    IN  IF value.t = "str" /\ ToLowerCase(value.v) \in {tPrimary, tSecondary, tCombined}
        THEN ToLowerCase(value.v)
        ELSE tOther

\* C22: for a feed with a feature, count is the number of features,
\* sectorCounts and remoteCounts count each feature under its trimmed non-blank
\* value and have no empty key, stageCounts has exactly the keys primary,
\* secondary, combined and other and counts each feature once, a missing or
\* unknown stage under other, so that the four counts add up to count.
C22_Histograms ==
    (callPc = "returned" /\ ~NoFeatures(callArg)) =>
        /\ callRet.count = Len(callArg.features)
        /\ callRet.sectorCounts = Counted(callArg, kSector)
        /\ callRet.remoteCounts = Counted(callArg, kRemotearea)
        /\ DOMAIN callRet.stageCounts = {tPrimary, tSecondary, tCombined, tOther}
        /\ \A k \in {tPrimary, tSecondary, tCombined, tOther} :
              callRet.stageCounts[k] =
                  Cardinality({i \in 1..Len(callArg.features) :
                                  StageBucket(callArg.features[i]) = k})
        /\ callRet.stageCounts[tPrimary] + callRet.stageCounts[tSecondary]
              + callRet.stageCounts[tCombined] + callRet.stageCounts[tOther]
              = callRet.count

-----------------------------------------------------------------------------
(* SpecPercentile: parsePercentile applied to every bounded value *)

\* the characters of the texts: digits, the point, the percent sign, a blank
\* and a letter
PercentChars == {"8", "7", ".", "%", " ", "x"}

\* values that are not texts of PercentChars
PercentileValues ==
    << Null, Undefined, Num(42), Num(0), Num(-3), NaN, Infinity, EmptyObj,
       Str(<<"8","7",".","5","%">>), Str(<<" ","8","7",".","5"," ","%"," ">>),
       Str(<<"I","n","f","i","n","i","t","y">>), Str(<<"-","8","%">>) >>

InitPercentile ==
    /\ LoadIdle /\ HookIdle /\ AppIdle
    /\ \/ \E s \in SeqsUpTo(PercentChars, MaxText) : callArg = Str(s)
       \/ \E i \in 1..Len(PercentileValues) : callArg = PercentileValues[i]
    /\ callRet = Undefined
    /\ callInput = Undefined
    /\ callPc = "ready"

CallParsePercentile ==
    /\ callPc = "ready"
    /\ callRet' = parsePercentile(callArg)
    /\ callPc' = "returned"
    /\ UNCHANGED <<callArg, callInput, loadVars, hookVars, appVars>>

NextPercentile == CallParsePercentile

SpecPercentile == InitPercentile /\ [][NextPercentile]_vars

\* the text without the blanks around it and without one percent sign at its
\* end
PercentStripped(s) ==
    LET c == Trim(s)
    IN  IF Len(c) > 0 /\ c[Len(c)] = "%" THEN Trim(SubSeq(c, 1, Len(c) - 1)) ELSE c

\* a finite numeric literal: an optional sign, then digits with at most one
\* point among them
IsNumericLiteral(s) ==
    LET body == IF Len(s) > 0 /\ s[1] \in {"-", "+"} THEN Tail(s) ELSE s
    IN  /\ \A i \in 1..Len(body) : IsDigit(body[i]) \/ body[i] = "."
        /\ Cardinality({i \in 1..Len(body) : body[i] = "."}) <= 1
        /\ \E i \in 1..Len(body) : IsDigit(body[i])

\* C23: parsePercentile returns a finite number as it is, the number of a text
\* that is a finite numeric literal once the blanks around it and one percent
\* sign at its end are removed, and null for every other value; "87.5%" gives
\* 87.5, "" gives null and 42 gives 42.
C23_PercentileParsed ==
    callPc = "returned" =>
        /\ callArg.t = "num" => callRet = callArg
        /\ callArg.t = "str" =>
              callRet = IF IsNumericLiteral(PercentStripped(callArg.v))
                        THEN TextToNumber(PercentStripped(callArg.v))
                        ELSE Null
        /\ callArg.t \notin {"num", "str"} => callRet = Null
        /\ callArg = Str(<<"8","7",".","5","%">>) => callRet = Decimal(FALSE, 87, <<"5">>)
        /\ callArg = Str(<<>>) => callRet = Null
        /\ callArg = Num(42) => callRet = Num(42)

-----------------------------------------------------------------------------
(* SpecArcgisFetch: fetchArcgisGeojson for every bounded answer of the server *)

\* the payload of an answer: features, with or without an error member
ArcgisPayload(features, error) == [t |-> "obj", features |-> features, error |-> error]

ArcgisFeatureTemplates == {Null, EmptyObj, Obj(<< <<kURP, Num(120)>> >>)}

\* the member `error` of a payload: an object with a message, an object
\* without one, and null
ArcgisErrors == <<ArcgisError(<<"Invalid query">>), ArcgisError(<<>>), Null>>

InitArcgisFetch ==
    /\ LoadIdle /\ HookIdle /\ AppIdle
    /\ \/ callArg \in {NetworkError, HttpResponse(FALSE, TRUE, Null),
                       HttpResponse(TRUE, FALSE, Null)}
       \/ \E q \in SeqsUpTo(ArcgisFeatureTemplates, MaxFeed) :
             \/ callArg = HttpResponse(TRUE, TRUE, Collection(Numbered(q)))
             \/ \E i \in 1..Len(ArcgisErrors) :
                   callArg = HttpResponse(TRUE, TRUE,
                                          ArcgisPayload(Numbered(q), ArcgisErrors[i]))
    /\ callRet = Undefined
    /\ callInput = Undefined
    /\ callPc = "ready"

CallFetchArcgisGeojson ==
    /\ callPc = "ready"
    /\ callRet' = fetchArcgisGeojson(callArg)
    /\ callPc' = "returned"
    /\ UNCHANGED <<callArg, callInput, loadVars, hookVars, appVars>>

NextArcgisFetch == CallFetchArcgisGeojson

SpecArcgisFetch == InitArcgisFetch /\ [][NextArcgisFetch]_vars

\* the answer came with a success status and a body that is JSON
TransportSuccess(response) == response.kind = "response" /\ response.ok /\ response.valid

\* the payload of the answer has an error object
EmbeddedError(response) ==
    /\ TransportSuccess(response)
    /\ "error" \in DOMAIN response.value
    /\ response.value.error.t = "obj"

\* C24: fetchArcgisGeojson raises a failure with a message when the answer has
\* no success status and when the payload of a successful answer has an error
\* object; it returns only for a successful answer without an error, and then
\* returns the payload itself, with every feature of the source.
C24_ArcgisFailures ==
    callPc = "returned" =>
        /\ (callArg.kind = "response" /\ ~callArg.ok) =>
              (~callRet.ok /\ Len(callRet.message) > 0)
        /\ EmbeddedError(callArg) => (~callRet.ok /\ Len(callRet.message) > 0)
        /\ callRet.ok <=> (TransportSuccess(callArg) /\ ~EmbeddedError(callArg))
        /\ callRet.ok =>
              /\ callRet.value = callArg.value
              /\ Len(callRet.value.features) = Len(callArg.value.features)

\* a successful answer whose payload has features and an error object without
\* a message: the failure has the default message
C24_Witness ==
    /\ callPc = "returned"
    /\ EmbeddedError(callArg)
    /\ Len(callArg.value.features) = MaxFeed
    /\ Len(callArg.value.error.message) = 0
    /\ callRet = Thrown(<<"ArcGIS error">>)

-----------------------------------------------------------------------------
(* SpecKmz: one call of handleKmzUpload, alone, for every bounded file *)

MaxEntries == 2       \* entries of an uploaded archive

KmzFileNames ==
    { <<"a",".","k","m","z">>, <<"a",".","K","m","Z">>, <<"b",".","k","m","l">>,
      <<"c",".","t","x","t">>, <<"k","m","z">>, <<"a",".","k","m","z",".","b","a","k">> }

KmzEntryNames ==
    { <<"d",".","k","m","l">>, <<"D",".","K","M","L">>, <<"r",".","t","x","t">>,
      <<"k","m","l">> }

\* what kmlToGeojson returns: nothing, an object without features, a
\* collection without a feature and a collection with one
Conversions ==
    << Null, Converted(FALSE, <<>>), Converted(TRUE, <<>>),
       Converted(TRUE, <<Feature(1, EmptyObj)>>) >>

InitKmz ==
    /\ LoadIdle /\ HookIdle /\ AppIdle
    /\ \E name \in KmzFileNames, readable \in BOOLEAN,
          entries \in SeqsUpTo(KmzEntryNames, MaxEntries), c \in 1..Len(Conversions) :
          callArg = UploadedFile(name, readable, entries, Conversions[c])
    /\ callRet = Undefined
    /\ callInput = Undefined
    /\ callPc = "ready"

\* handleKmzUpload up to `await loadKmzLayer(file)`
CallLoadKmzLayer ==
    /\ callPc = "ready"
    /\ kmzLoading' = TRUE
    /\ kmzError' = Null
    /\ callPc' = "awaiting"
    /\ UNCHANGED <<viewVars, callArg, callRet, callInput, loadVars, hookVars, lazyVars,
                   arcgisVars,
                   kmzLayers, uploads, geocodeVars>>

\* loadKmzLayer settles; try, catch and finally of handleKmzUpload
ReturnLoadKmzLayer ==
    /\ callPc = "awaiting"
    /\ callRet' = loadKmzLayer(callArg)
    /\ IF loadKmzLayer(callArg).ok
       THEN /\ kmzLayers' = AppendLayer(kmzLayers,
                                        Layer(kmzLayerName(callArg.name),
                                              loadKmzLayer(callArg).value))
            /\ UNCHANGED kmzError
       ELSE /\ kmzError' = Str(loadKmzLayer(callArg).message)
            /\ UNCHANGED kmzLayers
    /\ kmzLoading' = FALSE
    /\ callPc' = "returned"
    /\ UNCHANGED <<viewVars, callArg, callInput, loadVars, hookVars, lazyVars,
                   arcgisVars, uploads,
                   geocodeVars>>

NextKmz == CallLoadKmzLayer \/ ReturnLoadKmzLayer

SpecKmz == InitKmz /\ [][NextKmz]_vars

\* the name ends in the extension, whatever the case of its letters
HasExtension(name, ext) ==
    Len(name) >= Len(ext)
        /\ \A i \in 1..Len(ext) : LowerChar(name[Len(name) - Len(ext) + i]) = ext[i]

\* an archive by its name without an entry that is a KML document
KmzWithoutKml(file) ==
    /\ HasExtension(file.name, extKmz)
    /\ \A i \in 1..Len(file.entries) : ~HasExtension(file.entries[i], extKml)

OtherFileType(file) == ~HasExtension(file.name, extKmz) /\ ~HasExtension(file.name, extKml)

\* C26: for a .kmz file whose archive has no .kml entry, in any letter case,
\* and for a file that is neither .kmz nor .kml, loadKmzLayer raises a failure
\* with a message, returns no collection, and no KMZ layer is added.
C26_NoKmlNoLayer ==
    (callPc = "returned" /\ (KmzWithoutKml(callArg) \/ OtherFileType(callArg))) =>
        /\ ~callRet.ok
        /\ Len(callRet.message) > 0
        /\ kmzLayers = <<>>
        /\ kmzError = Str(callRet.message)
        /\ ~kmzLoading

\* a readable archive with entries, none of them a KML document, whose first
\* entry would convert to a feature
C26_Witness ==
    /\ callPc = "returned"
    /\ KmzWithoutKml(callArg)
    /\ callArg.readable
    /\ Len(callArg.entries) = MaxEntries
    /\ callArg.converted = Conversions[4]
    /\ callRet = Thrown(<<"KMZ archive does not contain a KML file.">>)
    /\ kmzLayers = <<>>

\* C27: for .kml and .kmz files, loadKmzLayer raises a failure whenever the
\* conversion gives no features (no feature list, or an empty one): it never
\* returns a collection without features.
C27_NeverEmpty ==
    callPc = "returned" =>
        /\ callRet.ok => Len(callRet.value.features) > 0
        /\ kmzLayers = <<>> \/ Len(kmzLayers[1].data.features) > 0

-----------------------------------------------------------------------------
(* SpecFilters: the memos filteredSa1 and filteredSchools for every bounded
   snapshot, selected state and percentileMax *)

FilterSa1Templates ==
    { Null, EmptyObj,
      Obj(<< <<kSTE_NAME21, Str(tWA)>> >>),
      Obj(<< <<kSTE_NAME21, Str(tNT)>> >>) }

\* schools with the ranking_percentile as a number, as a text with a percent
\* sign, as a text that is no number, above 100, and without one
FilterSchoolTemplates ==
    { Null,
      Obj(<< <<kRanking_percentile, Num(90)>> >>),
      Obj(<< <<kRanking_percentile, Str(<<"5","0","%">>)>> >>),
      Obj(<< <<kRanking_percentile, Str(<<"n","a">>)>> >>),
      Obj(<< <<kRanking_percentile, Num(120)>> >>) }

\* the part of a snapshot the memos read
FilterData(sa1, schools) == [t |-> "obj", sa1 |-> sa1, schools |-> schools]

FilterSa1Fixed == Collection(Numbered(<<EmptyObj>>))
FilterSchoolsFixed == Collection(Numbered(<<EmptyObj>>))

\* the argument of one render: the snapshot, selectedState, percentileMax
FilterArg(data, state, max) == [data |-> data, selectedState |-> state, percentileMax |-> max]

InitFilters ==
    /\ LoadIdle /\ HookIdle /\ AppIdle
    /\ \/ \E q \in SeqsUpTo(FilterSa1Templates, MaxFeed), state \in {Null, Str(tWA), Str(tNT)} :
             callArg = FilterArg(FilterData(Collection(Numbered(q)), FilterSchoolsFixed),
                                 state, Null)
       \/ \E q \in SeqsUpTo(FilterSchoolTemplates, MaxFeed),
             max \in {Null, Num(0), Num(50), Num(90), Num(100), Num(120)} :
             callArg = FilterArg(FilterData(FilterSa1Fixed, Collection(Numbered(q))),
                                 Null, max)
       \/ \E max \in {Null, Num(50)} :
             \/ callArg = FilterArg(FilterData(FilterSa1Fixed, Null), Null, max)
             \/ callArg = FilterArg(Null, Null, max)
    /\ callRet = Undefined
    /\ callInput = callArg.data
    /\ callPc = "ready"

\* one evaluation of the two memos; neither writes to the snapshot
RenderFilters ==
    /\ callPc = "ready"
    /\ callRet' = [filteredSa1 |-> filteredSa1(callArg.data, callArg.selectedState),
                   filteredSchools |-> filteredSchools(callArg.data, callArg.percentileMax)]
    /\ callPc' = "returned"
    /\ UNCHANGED <<callArg, callInput, loadVars, hookVars, appVars>>

NextFilters == RenderFilters

SpecFilters == InitFilters /\ [][NextFilters]_vars

\* the elements of seq at the indexes of keep, in the order of seq
RECURSIVE KeptFrom(_, _, _)
KeptFrom(seq, keep, i) ==
    IF i > Len(seq) THEN <<>>
    ELSE (IF i \in keep THEN <<seq[i]>> ELSE <<>>) \o KeptFrom(seq, keep, i + 1)

\* the largest parsed ranking_percentile of the schools, capped at 100; 100
\* when no school has one
DefaultMaximum(schools) ==
    LET parsed == {percentileOf(schools[i]) : i \in 1..Len(schools)} \ {Null}
    IN  IF parsed = {} THEN 100
        ELSE IF \E p \in parsed : p.v >= 100 THEN 100
        ELSE CHOOSE m \in {p.v : p \in parsed} : \A p \in parsed : p.v <= m

\* C28: filteredSa1 is the SA1 features whose STE_NAME21 is the selected state,
\* all of them when no state is selected; filteredSchools is all schools when
\* percentileMax is null or not below the default maximum, and otherwise the
\* schools whose parsed ranking_percentile is not null and <= percentileMax;
\* both keep the order of the source, and the snapshot is left as it was.
C28_FiltersKeepOrder ==
    (callPc = "returned" /\ callArg.data # Null) =>
        /\ callInput = callArg.data
        /\ LET sa1 == callArg.data.sa1.features
               state == callArg.selectedState
           IN  callRet.filteredSa1.features =
                   KeptFrom(sa1, {i \in 1..Len(sa1) :
                                     \/ state = Null
                                     \/ (sa1[i].properties # Null
                                            /\ Get(sa1[i].properties, kSTE_NAME21) = state)},
                            1)
        /\ callArg.data.schools # Null =>
              LET schools == callArg.data.schools.features
                  max == callArg.percentileMax
              IN  callRet.filteredSchools =
                      IF max = Null \/ max.v >= DefaultMaximum(schools) THEN schools
                      ELSE KeptFrom(schools,
                                    {i \in 1..Len(schools) :
                                        /\ percentileOf(schools[i]) # Null
                                        /\ percentileOf(schools[i]).v <= max.v},
                                    1)

\* three schools under the default maximum 90 and percentileMax 50: only the
\* third, whose percentile is at most 50, is kept
C28_Witness ==
    /\ callPc = "returned"
    /\ callArg.data # Null /\ callArg.data.schools # Null
    /\ callArg.percentileMax = Num(50)
    /\ Len(callArg.data.schools.features) = 3
    /\ Len(callRet.filteredSchools) = 1
    /\ callRet.filteredSchools[1] = callArg.data.schools.features[3]
    /\ DefaultMaximum(callArg.data.schools.features) = 90

-----------------------------------------------------------------------------
(* SpecSelection: the selections of the view, from the first render with the
   snapshot: clicks on polygons and markers, the state selector, the slider *)

\* SA1 polygons of two states, without a state, with an empty one, and
\* without properties
SelectionSa1Templates ==
    { Null,
      Obj(<< <<kSTE_NAME21, Str(tWesternAustralia)>> >>),
      Obj(<< <<kSTE_NAME21, Str(tNT)>> >>),
      Obj(<< <<kSTE_NAME21, Str(<<>>)>> >>) }

\* two schools with a position and a percentile, and one without a position
SelectionSchools ==
    Collection(<< GeoFeature(1, Obj(<< <<kRanking_percentile, Num(90)>> >>), Point(115, -32)),
                  GeoFeature(2, Obj(<< <<kRanking_percentile, Num(50)>> >>), Point(116, -31)),
                  GeoFeature(3, EmptyObj, Null) >>)

SelectionResults(sa1) ==
    [d \in Datasets |->
        CASE d = "sa1" -> sa1
          [] d = "schools" -> SelectionSchools
          [] OTHER -> Null]

\* the values the slider is dragged to
SliderValues == {0, 50, 100}

InitSelection ==
    /\ \E q \in SeqsUpTo(SelectionSa1Templates, MaxFeed) :
          fetchResult = SelectionResults(Collection(Numbered(q)))
    /\ loadValue = loadOutcome(fetchResult)
    /\ fetchStatus = [d \in Datasets |-> "settled"]
    /\ loadPromise = "resolved"
    /\ hookState = [loading |-> FALSE, error |-> Undefined, data |-> loadValue]
    /\ hookCancelled = FALSE
    /\ hookPc = "done"
    /\ mounted = TRUE
    /\ CallIdle
    /\ selectedProcessedLayers = <<>> /\ processedLayerData = NoLayers
    /\ processedLayerError = Null /\ runs = <<>> /\ fetches = <<>>
    /\ temporaryArcgis = <<>> /\ arcgisName = <<>> /\ arcgisUrl = <<>>
    /\ arcgisWhere = DefaultWhere /\ arcgisError = Null /\ addingArcgis = FALSE
    /\ arcgisCalls = <<>>
    /\ kmzLayers = <<>> /\ kmzError = Null /\ kmzLoading = FALSE /\ uploads = <<>>
    /\ addressQuery = <<>> /\ addressPin = Null /\ geocodeStatus = Null
    /\ searches = <<>>
    /\ selectedState = Null
    /\ selectedSchool = Null
    /\ selectedSa1 = Null
    /\ percentileMax = Null
    /\ viewPc = "rendered"

\* the effects after a render, each with the values of that render; a value
\* they set makes another render
RunEffects ==
    /\ mounted /\ viewPc = "rendered"
    /\ selectedState' = DefaultStateEffect(hookState.data, selectedState)
    /\ selectedSa1' = ClearingEffect(selectedState, selectedSa1)
    /\ percentileMax' = IF percentileMax = Null
                        THEN schoolPercentileDefault(hookState.data)
                        ELSE percentileMax
    /\ viewPc' = IF /\ selectedState' = selectedState
                    /\ selectedSa1' = selectedSa1
                    /\ percentileMax' = percentileMax
                 THEN "idle" ELSE "rendered"
    /\ UNCHANGED <<selectedSchool, loadVars, hookVars, callVars, lazyVars, arcgisVars,
                   kmzVars, geocodeVars>>

\* the markers drawn: the filtered schools that have a position
HasPosition(feature) ==
    /\ feature.geometry # Null
    /\ Len(feature.geometry.coordinates) >= 2

\* the school of marker i: schoolMarkers maps the filtered schools and draws
\* none for a school without a position
MarkerAt(schools, i) ==
    IF i \in 1..Len(schools) /\ HasPosition(schools[i]) THEN {schools[i]} ELSE {}

\* click on the marker of school i of the filtered schools
ClickSchool(i) ==
    /\ mounted /\ viewPc = "idle"
    /\ \E feature \in MarkerAt(filteredSchools(hookState.data, percentileMax), i) :
          selectedSchool' = feature
    /\ selectedSa1' = Null
    /\ viewPc' = "rendered"
    /\ UNCHANGED <<selectedState, percentileMax, loadVars, hookVars, callVars, lazyVars,
                   arcgisVars, kmzVars, geocodeVars>>

\* click on polygon i of the SA1 layer, which holds the features it was
\* created with or those of the selected state
ClickSa1(i) ==
    /\ mounted /\ viewPc = "idle"
    /\ i \in 1..Len(hookState.data.sa1.features)
    /\ selectedSa1' = hookState.data.sa1.features[i]
    /\ selectedSchool' = Null
    /\ viewPc' = "rendered"
    /\ UNCHANGED <<selectedState, percentileMax, loadVars, hookVars, callVars, lazyVars,
                   arcgisVars, kmzVars, geocodeVars>>

\* onChange of the state selector, whose options are metadata.states
SelectState(i) ==
    /\ mounted /\ viewPc = "idle"
    /\ i \in 1..Len(hookState.data.metadata.states)
    /\ Str(hookState.data.metadata.states[i]) # selectedState
    /\ selectedState' = OrElse(Str(hookState.data.metadata.states[i]), Null)
    /\ viewPc' = "rendered"
    /\ UNCHANGED <<selectedSchool, selectedSa1, percentileMax, loadVars, hookVars, callVars,
                   lazyVars, arcgisVars, kmzVars, geocodeVars>>

\* onChange of the slider, drawn when there is a default percentile
SetPercentileMax(value) ==
    /\ mounted /\ viewPc = "idle"
    /\ schoolPercentileDefault(hookState.data) # Null
    /\ Num(value) # percentileMax
    /\ percentileMax' = Num(value)
    /\ viewPc' = "rendered"
    /\ UNCHANGED <<selectedState, selectedSchool, selectedSa1, loadVars, hookVars, callVars,
                   lazyVars, arcgisVars, kmzVars, geocodeVars>>

NextSelection ==
    \/ RunEffects
    \/ \E i \in 1..3 : ClickSchool(i)
    \/ \E i \in 1..(MaxFeed + 1) : ClickSa1(i)
    \/ \E i \in 1..(MaxFeed + 1) : SelectState(i)
    \/ \E value \in SliderValues : SetPercentileMax(value)

SpecSelection == InitSelection /\ [][NextSelection]_vars

\* the non-empty STE_NAME21 the selected SA1 carries, if it carries one
CarriedState == Get(PropsOf(selectedSa1), kSTE_NAME21)

\* C29: at most one of selectedSchool and selectedSa1 is not null, and once the
\* effects have run a selected SA1 that carries a STE_NAME21 carries the name
\* of the selected state.
C29_OneSelection ==
    /\ selectedSchool = Null \/ selectedSa1 = Null
    /\ (viewPc = "idle" /\ selectedSa1 # Null /\ Truthy(CarriedState)) =>
          selectedState = CarriedState

\* a polygon of another state was clicked: no school is selected and the
\* effects are still to run
C29_Witness ==
    /\ viewPc = "rendered"
    /\ selectedSa1 # Null /\ selectedSchool = Null
    /\ selectedState = Str(tWesternAustralia)
    /\ CarriedState = Str(tNT)

-----------------------------------------------------------------------------
(* Properties of the load cycle (SpecLoad) *)

Secondary == Datasets \ {"sa1"}
LoadSettled == loadPromise \in {"resolved", "rejected"}

\* C1: loadMapData rejects exactly when the SA1 fetch yielded null, whatever
\* the four other fetches yielded; with SA1 present it resolves with a
\* snapshot holding that SA1 collection; after a rejection the mounted
\* consumer ends with loading = false, the error message and no data.
C1_FailsIffSa1Null ==
    /\ LoadSettled =>
          /\ (loadPromise = "rejected") <=> (fetchResult["sa1"] = Null)
          /\ loadPromise = "resolved" =>
                (loadValue.t = "obj" /\ loadValue.sa1 = fetchResult["sa1"])
    /\ loadPromise = "rejected" => hookState.data = Undefined
    /\ (loadPromise = "rejected" /\ hookPc = "done" /\ mounted) =>
          /\ hookState.loading = FALSE
          /\ hookState.error = RequiredError.message
          /\ hookState.data = Undefined

\* SA1 absent while a secondary dataset loaded: the load rejected and the
\* consumer shows the error
C1_Witness ==
    /\ loadPromise = "rejected" /\ hookPc = "done" /\ mounted
    /\ hookState.error = RequiredError.message
    /\ \E d \in Secondary : fetchResult[d] # Null

\* C2: the five fetches are started together, and loadMapData settles (and the
\* hook publishes) only when each of the five has settled.
C2_WaitsForAll ==
    /\ (\E d \in Datasets : fetchStatus[d] # "idle") =>
          (\A d \in Datasets : fetchStatus[d] # "idle")
    /\ (LoadSettled \/ hookState # InitialHookState) =>
          (\A d \in Datasets : fetchStatus[d] = "settled")

\* a secondary fetch has failed and SA1 has arrived, while another fetch is
\* still pending: the load has not settled
C2_Witness ==
    /\ loadPromise = "pending"
    /\ fetchStatus["transit"] = "settled" /\ fetchResult["transit"] = Null
    /\ fetchStatus["sa1"] = "settled" /\ fetchResult["sa1"] # Null
    /\ fetchStatus["schools"] = "pending"

\* the warning fields of the snapshot that speak of each secondary dataset
WarningFields ==
    [d \in Secondary |->
        CASE d = "transit" -> {"transitWarning"}
          [] d = "schools" -> {"schoolsWarning", "rankingWarning"}
          [] d = "catchments" -> {"catchmentsWarning"}
          [] OTHER -> {}]

Warned(d) == \E f \in WarningFields[d] : loadValue[f] # Undefined

\* C3: in a snapshot, every secondary dataset whose fetch yielded null has a
\* warning (transit, schools, catchments, manifest), and so has each of
\* transit, schools, catchments that loaded with zero features.
C3_DegradedWarned ==
    loadPromise = "resolved" =>
        /\ \A d \in Secondary : fetchResult[d] = Null => Warned(d)
        /\ \A d \in Secondary \ {"manifest"} :
              (fetchResult[d] # Null /\ Len(fetchResult[d].features) = 0) => Warned(d)

\* C4: a snapshot whose metadata.iradRange is null carries a warning for it.
C4_NoIradWarned ==
    (loadPromise = "resolved" /\ loadValue.metadata.iradRange = Null)
        => loadValue.seifaWarning # Undefined

\* C5: once the consumer is torn down, the hook state is never written again.
C5_NoWriteAfterTeardown == [][hookCancelled => hookState' = hookState]_vars

\* torn down before the load settled; the load resolved and the reaction ran,
\* and the state is still {loading: true}
C5_Witness ==
    /\ hookCancelled /\ hookPc = "done" /\ loadPromise = "resolved"
    /\ hookState = InitialHookState

-----------------------------------------------------------------------------
(* Properties of the App (SpecApp) *)

Merged(calls) == {k \in DOMAIN calls : calls[k].status = "ok"}

\* C6: once the App is torn down, no operation it started writes its outcome
\* into the App's state (layer lists, error strings, busy flags, address pin,
\* geocode status)
C6_NoWriteAfterTeardown ==
    [][~mounted =>
         UNCHANGED <<processedLayerData, processedLayerError, temporaryArcgis,
                     arcgisError, addingArcgis, kmzLayers, kmzError, kmzLoading,
                     addressPin, geocodeStatus>>]_vars

\* the fetches a step has started
Started == {k \in DOMAIN fetches' : k > Len(fetches)}

\* C7: the lazy loader starts no fetch for a name that has a fetch in flight
\* or that is already a key of processedLayerData
C7_NoSecondFetch ==
    [][\A k \in Started :
         /\ fetches'[k].name \notin DOMAIN processedLayerData'
         /\ \A j \in 1..(k - 1) :
               ~(fetches'[j].status = "pending" /\ fetches'[j].name = fetches'[k].name)
      ]_vars

\* C8: no key is removed from processedLayerData, no stored value is
\* replaced, and the snapshot is neither modified nor reloaded
C8_AdditiveMapping ==
    [][/\ \A name \in DOMAIN processedLayerData :
             /\ name \in DOMAIN processedLayerData'
             /\ processedLayerData'[name] = processedLayerData[name]
       /\ hookState' = hookState
       /\ loadVars' = loadVars]_vars

\* two layers have been merged one after the other, a fetch has failed and a
\* fetch was discarded
C8_Witness ==
    /\ Cardinality(DOMAIN processedLayerData) = 2
    /\ processedLayerError # Null
    /\ \E k \in DOMAIN fetches : fetches[k].status = "discarded"

\* C9: every successful completion that was not cancelled has its entry: a
\* processed layer under its name, an ArcGIS layer in temporaryArcgis, an
\* upload in kmzLayers
C9_NoResultLost ==
    /\ \A k \in Merged(fetches) :
          /\ fetches[k].name \in DOMAIN processedLayerData
          /\ processedLayerData[fetches[k].name] = Fetched(k)
    /\ \A k \in Merged(arcgisCalls) :
          \E i \in DOMAIN temporaryArcgis : temporaryArcgis[i].data = Fetched(k)
    /\ Len(temporaryArcgis) = Cardinality(Merged(arcgisCalls))
    /\ \A k \in Merged(uploads) :
          \E i \in DOMAIN kmzLayers :
             kmzLayers[i].data = loadKmzLayer(uploads[k].input).value
    /\ Len(kmzLayers) = Cardinality(Merged(uploads))

\* two uploads that were in flight together have both been merged, next to a
\* merged processed layer
C9_Witness ==
    /\ mounted
    /\ Len(kmzLayers) = 2
    /\ Merged(fetches) # {}


\* the calls of one handler that a step has settled with `status`, and the
\* calls it has refused
SettledAs(calls, calls2, status) ==
    {k \in DOMAIN calls : calls[k].status = "pending" /\ calls2[k].status = status}
RefusedNow(calls, calls2) ==
    {k \in DOMAIN calls2 : k > Len(calls) /\ calls2[k].status = "refused"}

\* `after` is `before` with one layer more, at its end
OneAppended(before, after) ==
    Len(after) = Len(before) + 1 /\ SubSeq(after, 1, Len(before)) = before

IsMessage(value) == value.t = "str" /\ Len(value.v) > 0

\* C25: a call of handleArcgisAdd or handleKmzUpload that fails leaves the
\* snapshot, temporaryArcgis, kmzLayers and processedLayerData as they were,
\* sets arcgisError / kmzError to the message of the failure and leaves
\* addingArcgis / kmzLoading false; a call that succeeds appends exactly one
\* layer at the end of its list and leaves the busy flag false.
C25_FailureKeepsState ==
    [][/\ (SettledAs(arcgisCalls, arcgisCalls', "failed") # {}
              \/ RefusedNow(arcgisCalls, arcgisCalls') # {}) =>
             /\ UNCHANGED <<hookState, loadValue, temporaryArcgis, kmzLayers,
                            processedLayerData>>
             /\ IsMessage(arcgisError')
             /\ \A k \in SettledAs(arcgisCalls, arcgisCalls', "failed") :
                   \E response \in ArcgisResponses(k) :
                      /\ ~fetchArcgisGeojson(response).ok
                      /\ arcgisError' = Str(fetchArcgisGeojson(response).message)
             /\ ~addingArcgis'
       /\ (SettledAs(uploads, uploads', "failed") # {}
              \/ RefusedNow(uploads, uploads') # {}) =>
             /\ UNCHANGED <<hookState, loadValue, temporaryArcgis, kmzLayers,
                            processedLayerData>>
             /\ \A k \in SettledAs(uploads, uploads', "failed")
                         \cup RefusedNow(uploads, uploads') :
                   kmzError' = Str(loadKmzLayer(uploads'[k].input).message)
             /\ IsMessage(kmzError')
             /\ ~kmzLoading'
       /\ SettledAs(arcgisCalls, arcgisCalls', "ok") # {} =>
             /\ OneAppended(temporaryArcgis, temporaryArcgis')
             /\ ~addingArcgis'
       /\ SettledAs(uploads, uploads', "ok") # {} =>
             /\ OneAppended(kmzLayers, kmzLayers')
             /\ ~kmzLoading'
      ]_vars

\* an ArcGIS layer was added, a second call has failed and an upload has failed:
\* the layer is still there and both messages are set
C25_Witness ==
    /\ Len(temporaryArcgis) = 1
    /\ \E k \in DOMAIN arcgisCalls : arcgisCalls[k].status = "failed"
    /\ arcgisError = Str(<<"Invalid query">>)
    /\ ~addingArcgis
    /\ \E k \in DOMAIN uploads : uploads[k].status = "failed"
    /\ IsMessage(kmzError)
\* a fetch of the name failed in a run that was not cancelled
FailedFor(name) ==
    \E k \in DOMAIN fetches : fetches[k].name = name /\ fetches[k].status = "failed"

\* no fetch of the lazy loader is in flight
NoFetchPending == \A k \in DOMAIN fetches : fetches[k].status # "pending"

\* a step in which a fetch fails sets processedLayerError to the message for
\* its name
FailureReported ==
    \A k \in DOMAIN fetches :
        (fetches[k].status = "pending" /\ fetches'[k].status = "failed") =>
            /\ processedLayerError' # Null
            /\ processedLayerError'.v[1] = "Failed to load "
            /\ processedLayerError'.v[2] = fetches[k].name

\* C30: while the App stays mounted, a name that stays selected from some point
\* on and whose fetches do not fail is eventually a key of processedLayerData,
\* whatever runs were cancelled and whatever other names failed; a fetch that
\* fails sets processedLayerError, and from some point on no fetch is in flight.
C30_LoadsSettle ==
    /\ \A name \in Range(OptionNames(Manifest(<<EntryA, EntryB>>))) :
          ([]mounted /\ <>[](name \in Range(selectedProcessedLayers)) /\ []~FailedFor(name))
              => <>(name \in DOMAIN processedLayerData)
    /\ <>[]NoFetchPending
    /\ [][FailureReported]_vars

\* both names are selected, the first failed in a run that went on, a run was
\* cancelled, and the second is stored
C30_Witness ==
    /\ mounted /\ NoFetchPending
    /\ Len(selectedProcessedLayers) = 2
    /\ FailedFor(selectedProcessedLayers[1])
    /\ ~FailedFor(selectedProcessedLayers[2])
    /\ selectedProcessedLayers[2] \in DOMAIN processedLayerData
    /\ \E r \in DOMAIN runs : runs[r].cancelled
    /\ processedLayerError # Null

=============================================================================
